---- MODULE Spec2Model ----
(***************************************************************************)
(* Route resolution engine of the dispatch distance calculator.            *)
(*                                                                         *)
(* Two programs share the engine and are modelled side by side, selected   *)
(* by the variable prog:                                                   *)
(*   "cli"  src/tms_excel_processor.py  main (choice "2") + process_group  *)
(*   "app"  src/app.py                  Excel-upload calculation button    *)
(* Both call validate_address (two-tier geocoding) and calculate_route     *)
(* (one probe, then up to 36 perturbed probes on an "unreachable" code).   *)
(*                                                                         *)
(* Conventions                                                             *)
(*   Python None              the empty tuple <<>>                         *)
(*   a coordinate (x, y)      <<x, y>> in units of 0.0001 degree           *)
(*   the cell "-"             the empty tuple (Dash)                       *)
(*   a km value with 1 digit  <<tenths of a km>>                           *)
(*   a minutes value          <<minutes>>                                  *)
(*   "H시간 M분" / "M분"      <<H, M>> / <<M>>                             *)
(*   "상차지"                 "origin"                                     *)
(*   "주소 확인 필요"         "address unresolved"                         *)
(*   "경로 계산 실패"         "route computation failed"                   *)
(***************************************************************************)
EXTENDS Integers, Sequences, FiniteSets, TLC

VARIABLES
    prog,                 \* which program runs: "cli" (tms_excel_processor), "app" and
                          \* "manual" (app.py, its two tabs), "calc" (tms_distance_calculator)
    df,                   \* the loaded stop rows (the spreadsheet)
    pc,                   \* position of the run
    outcome,              \* how the run ended ("" while it runs)
    originTries,          \* cli: number of origin prompts answered
    origin_coords,        \* resolved origin coordinate or None
    groups,               \* groupby keys, in iteration order
    gi,                   \* index of the current group in groups
    group_df,             \* current group: df indexes after sort_values
    idx,                  \* position of the loop in group_df
    current,              \* (current_x, current_y)
    current_name,         \* current_name
    cumulative_distance,  \* metres
    cumulative_duration,  \* seconds
    group_distance,       \* app only: metres
    group_duration,       \* app only: seconds
    dest,                 \* (dest_x, dest_y) of the stop being routed
    route_result,         \* what the last calculate_route call returned
    results,              \* cli: process_group's local results list
    all_results,          \* detail rows
    summary_results,      \* vehicle summaries
    saved,                \* cli: the written workbook; app: session state; manual: the tables drawn
    geoLog,               \* history: validate_address calls (target 0 = origin, i = df row i)
    routeLog,             \* history: the calculate_route calls (row, from, to, result)
    raw,                  \* history: per emitted row, the route result behind it
    rOrigin,              \* resolver specification: origin of the call
    rDest,                \* resolver specification: destination of the call
    rScript,              \* resolver specification: the provider's script
    rCall,                \* resolver specification: the call made, or None
    gCall,                \* geocoder specification: the validate_address call made, or None
    columns,              \* the columns of the spreadsheet file
    missing_columns,      \* the list named by the missing-columns error, or None
    first,                \* history: the first run (answers, order, output) once a second run began, else None
    origin_name,          \* calc: the formatted origin address, as its words
    validated_customers,  \* calc: the customers that resolved, with their coordinates
    route_results,        \* calc: one entry per routed segment
    total_distance,       \* calc: metres
    total_duration,       \* calc: seconds
    runs,                 \* app: script runs that ended before this one
    menu,                 \* app: the choice of the sidebar radio, "" before it is drawn
    tabs,                 \* app: the tab names the script run has assigned
    raised                \* app: the exception that ended the script run, or ""

vars == <<prog, df, pc, outcome, originTries, origin_coords, groups, gi, group_df,
          idx, current, current_name, cumulative_distance, cumulative_duration,
          group_distance, group_duration, dest, route_result, results,
          all_results, summary_results, saved, geoLog, routeLog, raw,
          rOrigin, rDest, rScript, rCall, gCall, columns,
          missing_columns, first, origin_name, validated_customers,
          route_results, total_distance, total_duration, runs, menu, tabs,
          raised>>

\* the state of one run of the app.py script, top to bottom
scriptVars == <<menu, tabs, raised>>

\* the locals of tms_distance_calculator.main
calcVars == <<origin_name, validated_customers, route_results, total_distance,
              total_duration>>

----------------------------------------------------------------------------
(* Bounds of the model *)

MaxStops == 2
MaxOriginTries == 2
GeoPointCount == 8
MaxRuns == 2

(* Inputs *)

None == <<>>
Dash == <<>>

\* vehicle ids in ascending string order (the order groupby iterates in)
VehicleOrder == <<"V1", "V2">>
Vehicles == {VehicleOrder[i] : i \in 1..Len(VehicleOrder)}
SeqValues == 1..2

\* an empty 운행순번 cell: read_excel gives NaN, which sort_values puts after
\* every number (na_position='last') and int() cannot convert
NaN == 1 + CHOOSE n \in SeqValues : \A m \in SeqValues : m <= n

CustomerNames == <<"N1", "N2", "N3", "N4", "N5", "N6">>
CustomerAddresses == <<"addr1", "addr2", "addr3", "addr4", "addr5", "addr6">>

StopChoices == [veh : Vehicles, seq : SeqValues]

StopLists ==
    UNION { [1..n -> StopChoices] : n \in 0..MaxStops }

MakeDf(choice) ==
    [i \in 1..Len(choice) |->
        [veh |-> choice[i].veh, seq |-> choice[i].seq,
         name |-> CustomerNames[i], addr |-> CustomerAddresses[i]]]

\* what the user types at the origin prompt / leaves in the origin text box
\* required_columns, as field names: 배송호차, 운행순번, 거래처명, 거래처주소
required_columns == <<"veh", "seq", "name", "addr">>

\* [col for col in required_columns if col not in df.columns]
\* (first a mutant of it: only the first missing column is named)
MissingFirstOnly(cols) ==
    LET all == SelectSeq(required_columns, LAMBDA col : col \notin cols)
    IN  IF all = <<>> THEN <<>> ELSE <<all[1]>>

MissingColumns(cols) == SelectSeq(required_columns, LAMBDA col : col \notin cols)

\* the column sets of the files read: any subset of the required columns
ColumnSets == SUBSET {required_columns[j] : j \in 1..Len(required_columns)}

\* the rows of a file with the columns cols
SheetRows(choice, cols) ==
    IF MissingColumns(cols) = <<>> THEN MakeDf(choice)
    ELSE [i \in 1..Len(choice) |-> [col \in cols |-> MakeDf(choice)[i][col]]]

OriginInputs == {"", "origin address"}

\* coordinates the geocoder answers with (units of 0.0001 degree): one for
\* the origin address, one for the address of each row
OriginPoint == <<0, 0>>
StopPoint(i) == <<200 * i, 100 * i>>

\* a geocoding lookup's response: transport error / non-2xx / bad JSON,
\* no document, a first document without a usable x or y, a first document
GeoFailures == {[kind |-> "error"], [kind |-> "empty"], [kind |-> "malformed"]}

GeoResponses(p) == GeoFailures \cup {[kind |-> "ok", pt |-> p]}

\* (distance m, duration s) summaries the directions provider may report
Summaries == {<<0, 0>>, <<50, 30>>, <<120000, 3600>>}
ResultCodes == {0, 1, 104, 105, 106}

\* a directions response: transport error / non-2xx / bad JSON, an empty
\* routes list, or a first route with a result code and a summary
RouteResponses ==
    {[kind |-> "error"], [kind |-> "noroutes"]}
    \cup {[kind |-> "route", code |-> c, summary |-> <<0, 0>>] : c \in ResultCodes \ {0}}
    \cup {[kind |-> "route", code |-> 0, summary |-> s] : s \in Summaries}

----------------------------------------------------------------------------
(* Pure functions *)

\* one lookup tier of validate_address: the first document's coordinate, or
\* nothing (no document, or an exception swallowed by the except clause)
GeoTier(resp) == IF resp.kind = "ok" THEN resp.pt ELSE None

\* validate_address: the structured lookup, then the keyword lookup
validate_address(structured, keyword) ==
    IF GeoTier(structured) # None THEN GeoTier(structured) ELSE GeoTier(keyword)

\* _try_route: None, (0, 0, result_code) or (distance, duration, 0)
TryRoute(resp) ==
    IF resp.kind # "route" THEN None
    ELSE IF resp.code # 0 THEN <<0, 0, resp.code>>
    ELSE <<resp.summary[1], resp.summary[2], 0>>

UnreachableCodes == {104, 105, 106}

\* a mutant of ProbeSucceeded: the distance is not looked at
ProbeSucceededAnyDistance(ret) == ret # None /\ ret[3] = 0

\* the test `adj_result and adj_result[2] == 0 and adj_result[0] > 0`
ProbeSucceeded(ret) == ret # None /\ ret[3] = 0 /\ ret[1] > 0

\* a mutant of FirstDecision: code 0 with distance 0 is retried as well
FirstDecisionRetryZero(ret) ==
    IF ret = None THEN "none"
    ELSE IF ret[3] = 0 /\ ret[1] > 0 THEN "success"
    ELSE IF ret[3] \in UnreachableCodes \/ ret[3] = 0 THEN "retry"
    ELSE "none"

\* a mutant of FirstDecision: every non-zero code is retried
FirstDecisionRetryAnyCode(ret) ==
    IF ret = None THEN "none"
    ELSE IF ret[3] = 0 /\ ret[1] > 0 THEN "success"
    ELSE IF ret[3] # 0 THEN "retry"
    ELSE "none"

\* calculate_route after the first probe: return the route, enter the retry
\* loop, or return None
FirstDecision(ret) ==
    IF ret = None THEN "none"
    ELSE IF ret[3] = 0 /\ ret[1] > 0 THEN "success"
    ELSE IF ret[3] \in UnreachableCodes THEN "retry"
    ELSE "none"

\* a mutant of offsets: the diagonal offsets come first
offsetsDiagonalsFirst ==
    << <<5, 5>>, <<-5, 5>>,
       <<-5, -5>>, <<5, -5>>,
       <<5, 0>>, <<-5, 0>>,
       <<0, 5>>, <<0, -5>>,
       <<10, 0>>, <<-10, 0>>,
       <<0, 10>>, <<0, -10>> >>

\* the offsets list of calculate_route, in units of 0.0001 degree
offsets ==
    << <<5, 0>>, <<-5, 0>>,
       <<0, 5>>, <<0, -5>>,
       <<5, 5>>, <<-5, 5>>,
       <<-5, -5>>, <<5, -5>>,
       <<10, 0>>, <<-10, 0>>,
       <<0, 10>>, <<0, -10>> >>

Shift(p, d) == <<p[1] + d[1], p[2] + d[2]>>

\* a mutant of RetryEndpoints: the destination is perturbed before the origin
RetryEndpointsDestFirst(o, d, s) ==
    LET off == offsets[(s \div 3) + 1]
    IN  CASE s % 3 = 0 -> <<o, Shift(d, off)>>
          [] s % 3 = 1 -> <<Shift(o, off), d>>
          [] OTHER     -> <<Shift(o, off), Shift(d, off)>>

\* endpoints of retry probe number s (0-based) of the loop over offsets:
\* origin moved, destination moved, both moved
RetryEndpoints(o, d, s) ==
    LET off == offsets[(s \div 3) + 1]
    IN  CASE s % 3 = 0 -> <<Shift(o, off), d>>
          [] s % 3 = 1 -> <<o, Shift(d, off)>>
          [] OTHER     -> <<Shift(o, off), Shift(d, off)>>

RetryProbes == 3 * Len(offsets)

\* The directions provider as calculate_route sees it: script[0] answers the
\* probe of the unmodified pair, script[s + 1] retry probe number s.
\* A probe is logged with its endpoints and with what _try_route returned.
Probe(from, to, ret) == [from |-> from, to |-> to, ret |-> ret]

\* a mutant of RetryLoop: the loop ends at the first perturbed probe that
\* comes back without a route at all
RECURSIVE RetryLoopGivesUp(_, _, _, _, _)
RetryLoopGivesUp(o, d, script, s, log) ==
    IF s = RetryProbes THEN [result |-> None, probes |-> log]
    ELSE LET ends == RetryEndpoints(o, d, s)
             adj  == TryRoute(script[s + 1])
             log2 == Append(log, Probe(ends[1], ends[2], adj))
         IN  IF ProbeSucceeded(adj)
             THEN [result |-> <<adj[1], adj[2]>>, probes |-> log2]
             ELSE IF adj = None THEN [result |-> None, probes |-> log2]
             ELSE RetryLoopGivesUp(o, d, script, s + 1, log2)

\* a mutant of RetryLoop: each offset is applied to the endpoints of the
\* probe before
RECURSIVE RetryLoopAccumulates(_, _, _, _, _)
RetryLoopAccumulates(o, d, script, s, log) ==
    IF s = RetryProbes THEN [result |-> None, probes |-> log]
    ELSE LET ends == RetryEndpoints(o, d, s)
             adj  == TryRoute(script[s + 1])
             log2 == Append(log, Probe(ends[1], ends[2], adj))
         IN  IF ProbeSucceeded(adj)
             THEN [result |-> <<adj[1], adj[2]>>, probes |-> log2]
             ELSE RetryLoopAccumulates(ends[1], ends[2], script, s + 1, log2)

\* calculate_route: the `for dx, dy in offsets` loop from retry probe s on
RECURSIVE RetryLoop(_, _, _, _, _)
RetryLoop(o, d, script, s, log) ==
    IF s = RetryProbes THEN [result |-> None, probes |-> log]
    ELSE LET ends == RetryEndpoints(o, d, s)
             adj  == TryRoute(script[s + 1])
             log2 == Append(log, Probe(ends[1], ends[2], adj))
         IN  IF ProbeSucceeded(adj)
             THEN [result |-> <<adj[1], adj[2]>>, probes |-> log2]
             ELSE RetryLoop(o, d, script, s + 1, log2)

\* calculate_route(origin, dest): its return value and the probes it issued
calculate_route(o, d, script) ==
    LET ret == TryRoute(script[0])
        log == << Probe(o, d, ret) >>
    IN  CASE FirstDecision(ret) = "success" ->
                [result |-> <<ret[1], ret[2]>>, probes |-> log]
          [] FirstDecision(ret) = "retry" -> RetryLoop(o, d, script, 0, log)
          [] OTHER -> [result |-> None, probes |-> log]

RECURSIVE PowMod(_, _, _)
PowMod(b, e, m) == IF e = 0 THEN 1 % m ELSE (b * PowMod(b, e - 1, m)) % m

\* smallest j with m * 2^j >= 1000 (m in 1..999)
RECURSIVE ScaleUp(_, _)
ScaleUp(m, j) == IF m >= 1000 THEN j ELSE ScaleUp(2 * m, j + 1)

\* floor(log2(n)) for n >= 1
RECURSIVE Log2Floor(_)
Log2Floor(n) == IF n < 2 THEN 0 ELSE 1 + Log2Floor(n \div 2)

\* The double meters / 1000 against the real quotient: -1 below, 0 equal,
\* 1 above. The quotient is rounded to 53 bits, meters * 2^k / 1000 with
\* 2^52 <= . < 2^53, and the remainder of that division decides the side.
QuotientSide(meters) ==
    LET e   == IF meters < 1000 THEN 0 - ScaleUp(meters, 0)
               ELSE Log2Floor(meters \div 1000)
        rem == ((meters % 1000) * PowMod(2, 52 - e, 1000)) % 1000
    IN  IF rem = 0 THEN 0 ELSE IF rem < 500 THEN -1 ELSE 1

\* meters_to_km: round(meters / 1000, 1), as tenths of a km. Python rounds
\* the double correctly: to the nearest tenth, and at a decimal tie by the
\* side the double lies on, half to even when the double is the tie itself.
meters_to_km(meters) ==
    LET q == meters \div 100
        r == meters % 100
    IN  IF r < 50 THEN <<q>>
        ELSE IF r > 50 THEN <<q + 1>>
        ELSE CASE QuotientSide(meters) = -1 -> <<q>>
               [] QuotientSide(meters) = 1  -> <<q + 1>>
               [] OTHER -> IF q % 2 = 0 THEN <<q>> ELSE <<q + 1>>

\* seconds_to_minutes: round(seconds / 60), half to even (k + 0.5 is exact)
seconds_to_minutes(seconds) ==
    LET q == seconds \div 60
        r == seconds % 60
    IN  IF r < 30 THEN <<q>>
        ELSE IF r > 30 THEN <<q + 1>>
        ELSE IF q % 2 = 0 THEN <<q>> ELSE <<q + 1>>

\* format_duration: "H시간 M분" when hours > 0, else "M분"
format_duration(total_seconds) ==
    LET hours   == total_seconds \div 3600
        minutes == (total_seconds % 3600) \div 60
    IN  IF hours > 0 THEN <<hours, minutes>> ELSE <<minutes>>

\* a mutant of GroupKeys: the keys in the order of their first row, as
\* groupby(sort=False) gives them
RECURSIVE GroupKeysInputOrder(_)
GroupKeysInputOrder(d) ==
    IF d = <<>> THEN <<>>
    ELSE LET n    == Len(d)
             head == GroupKeysInputOrder([i \in 1..(n - 1) |-> d[i]])
         IN  IF \E j \in 1..Len(head) : head[j] = d[n].veh
             THEN head ELSE Append(head, d[n].veh)

\* groupby('배송호차'): the distinct keys, ascending
GroupKeys(d) ==
    SelectSeq(VehicleOrder, LAMBDA v : \E i \in 1..Len(d) : d[i].veh = v)

\* the rows of one group, in input order (as df indexes)
RECURSIVE RowsFrom(_, _, _)
RowsFrom(d, v, i) ==
    IF i > Len(d) THEN <<>>
    ELSE IF d[i].veh = v THEN <<i>> \o RowsFrom(d, v, i + 1)
    ELSE RowsFrom(d, v, i + 1)

GroupRows(d, v) == RowsFrom(d, v, 1)

Range(s) == {s[i] : i \in 1..Len(s)}

\* sort_values('운행순번') with the default kind (quicksort, not stable):
\* any arrangement of the rows that ascends by sequence
SortedOrders(d, g) ==
    {p \in [1..Len(g) -> Range(g)] :
        /\ \A a, b \in 1..Len(g) : a # b => p[a] # p[b]
        /\ \A a, b \in 1..Len(g) : a < b => d[p[a]].seq <= d[p[b]].seq}


----------------------------------------------------------------------------
(* Provider scripts: the answers of the directions provider to one call *)

\* responses on which a probe does not succeed, in a fixed order
FailSeq ==
    << [kind |-> "route", code |-> 105, summary |-> <<0, 0>>],
       [kind |-> "error"],
       [kind |-> "route", code |-> 0, summary |-> <<0, 0>>],
       [kind |-> "noroutes"],
       [kind |-> "route", code |-> 104, summary |-> <<0, 0>>],
       [kind |-> "route", code |-> 1, summary |-> <<0, 0>>],
       [kind |-> "route", code |-> 106, summary |-> <<0, 0>>] >>

OkResponses == {r \in RouteResponses : ProbeSucceeded(TryRoute(r))}

\* first answers the unmodified pair; the retry probes before number hit
\* (1-based) fail in turn with the responses of FailSeq from rot on, probe
\* number hit gets ok, every later one gets after
MakeScript(firstResp, rot, hit, ok, after) ==
    [j \in 0..RetryProbes |->
        IF j = 0 THEN firstResp
        ELSE IF j < hit THEN FailSeq[((j + rot) % Len(FailSeq)) + 1]
        ELSE IF j = hit THEN ok
        ELSE after]

\* a hit position past the last retry probe: no retry probe succeeds
NeverHit == RetryProbes + 1

\* the scripts of the resolver specification
RouteScripts ==
    {MakeScript(f, rot, hit, ok, after) :
        f \in RouteResponses, rot \in 0..(Len(FailSeq) - 1),
        hit \in 1..NeverHit, ok \in OkResponses,
        after \in {FailSeq[1]} \cup OkResponses}

\* the first responses that open the retry loop
RetryOpeners == {r \in RouteResponses : FirstDecision(TryRoute(r)) = "retry"}

\* the scripts of the itinerary specification: any first response; when it
\* opens the retry loop, the loop succeeds at its first or second probe, and
\* after 105 also at its last probe or never
ItineraryScripts ==
    {MakeScript(f, 0, NeverHit, FailSeq[1], FailSeq[1]) :
        f \in (RouteResponses \ RetryOpeners) \cup {FailSeq[1]}}
    \cup {MakeScript(f, 0, hit, ok, ok) :
            f \in RetryOpeners, hit \in {1, 2}, ok \in OkResponses}
    \cup {MakeScript(FailSeq[1], 0, RetryProbes, ok, ok) : ok \in OkResponses}

\* coordinates of the resolver specification
RouteOrigins == {<<0, 0>>, <<200, 100>>}
RouteDests == {<<0, 0>>, <<3, 0>>}

----------------------------------------------------------------------------
(* State *)

NoteOk == ""
NoteAddress == "address unresolved"
NoteRoute == "route computation failed"
OriginLabel == "origin"

InitRun ==
    /\ outcome = ""
    /\ originTries = 0
    /\ origin_coords = None
    /\ groups = <<>>
    /\ gi = 0
    /\ group_df = <<>>
    /\ idx = 0
    /\ current = None
    /\ current_name = ""
    /\ cumulative_distance = 0
    /\ cumulative_duration = 0
    /\ group_distance = 0
    /\ group_duration = 0
    /\ dest = None
    /\ route_result = None
    /\ results = <<>>
    /\ all_results = <<>>
    /\ summary_results = <<>>
    /\ saved = None
    /\ geoLog = <<>>
    /\ routeLog = <<>>
    /\ raw = <<>>
    /\ first = None
    /\ missing_columns = None
    /\ gCall = None
    /\ origin_name = None
    /\ validated_customers = <<>>
    /\ route_results = <<>>
    /\ total_distance = 0
    /\ total_duration = 0
    /\ runs = 0
    /\ menu = ""
    /\ tabs = {}
    /\ raised = ""

\* the state after start-up: a program, the spreadsheet it will load
Init ==
    /\ prog \in {"cli", "app"}
    /\ columns = {required_columns[j] : j \in 1..Len(required_columns)}
    /\ df \in {MakeDf(c) : c \in StopLists}
    /\ InitRun
    /\ pc = "origin"
    /\ rOrigin = None
    /\ rDest = None
    /\ rScript = None
    /\ rCall = None

runVars == <<groups, gi, group_df, idx, current, current_name,
             cumulative_distance, cumulative_duration, group_distance,
             group_duration, dest, route_result, results, all_results,
             summary_results, saved, routeLog, raw>>

routeVars == <<rOrigin, rDest, rScript, rCall, gCall>>

----------------------------------------------------------------------------
(* Row construction *)

Emitted == IF prog = "cli" THEN all_results \o results ELSE all_results

\* one detail row: the dict appended to results / all_results
DetailRow(i, fromName, dist, mins, cumDist, cumDur, note) ==
    [veh |-> groups[gi], seq |-> df[i].seq, from |-> fromName,
     to |-> df[i].name, dist |-> dist, mins |-> mins,
     cumKm |-> meters_to_km(cumDist), cumTime |-> format_duration(cumDur),
     note |-> note]

\* results.append(row) in process_group, all_results.append(row) in app.py
Emit(row, routeResult) ==
    /\ IF prog = "cli"
       THEN results' = Append(results, row) /\ UNCHANGED all_results
       ELSE all_results' = Append(all_results, row) /\ UNCHANGED results
    /\ raw' = Append(raw, routeResult)

\* one vehicle summary: the dict appended to summary_results
SummaryRow(name, count, totalDist, totalDur) ==
    [veh |-> name, count |-> count,
     totalKm |-> meters_to_km(totalDist), totalTime |-> format_duration(totalDur)]

----------------------------------------------------------------------------
(* A stateless provider: in a second run every request that was made in the *)
(* first run is answered as it was then, and pandas sorts the same rows     *)
(* into the same order                                                      *)

\* the origin of a second run is the address that resolved in the first:
\* it is not left empty and the geocoder resolves it again
OriginEntered(address) == first # None => address # ""

OriginReplays(ok) == first # None => ok

\* the geocoder's answer for the address of row i agrees with the first run
GeoReplays(i, ok) ==
    first # None =>
        \A k \in 1..Len(first.geo) : first.geo[k].target = i => first.geo[k].ok = ok

\* the result of the route request (from, to) agrees with the first run
RouteReplays(from, to, rr) ==
    first # None =>
        \A k \in 1..Len(first.route) :
            (first.route[k].from = from /\ first.route[k].to = to)
               => first.route[k].result = rr

\* the order in which the first run processed the rows of vehicle v
FirstOrder(v) ==
    SelectSeq(first.geo, LAMBDA e : e.target # 0 /\ df[e.target].veh = v)

\* sort_values arranges the rows of the group as it did in the first run
OrderReplays(p) ==
    (first # None /\ p # <<>> /\ Len(FirstOrder(df[p[1]].veh)) = Len(p)) =>
        \A j \in 1..Len(p) : p[j] = FirstOrder(df[p[1]].veh)[j].target

----------------------------------------------------------------------------
(* The per-stop outcomes of the loop body *)

\* a mutant of AddressUnresolved: the stop leaves no row
AddressUnresolvedNoRow(i) ==
    /\ current_name' = df[i].name
    /\ idx' = idx + 1
    /\ UNCHANGED <<results, all_results, raw, current, cumulative_distance,
                   cumulative_duration, group_distance, group_duration, pc>>

\* a mutant of AddressUnresolved: the totals restart at the failed stop
AddressUnresolvedResets(i) ==
    /\ Emit(DetailRow(i, current_name, Dash, Dash, 0, 0, NoteAddress), None)
    /\ current_name' = df[i].name
    /\ idx' = idx + 1
    /\ cumulative_distance' = 0
    /\ cumulative_duration' = 0
    /\ UNCHANGED <<current, group_distance, group_duration, pc>>

\* a mutant of AddressUnresolved: the first unresolved stop ends the loop
AddressUnresolvedBreaks(i) ==
    /\ Emit(DetailRow(i, current_name, Dash, Dash, cumulative_distance,
                      cumulative_duration, NoteAddress), None)
    /\ current_name' = df[i].name
    /\ idx' = Len(group_df) + 1
    /\ UNCHANGED <<current, cumulative_distance, cumulative_duration,
                   group_distance, group_duration, pc>>


\* a mutant of AddressUnresolved: the from-label stays at the previous stop
AddressUnresolvedKeepsLabel(i) ==
    /\ Emit(DetailRow(i, current_name, Dash, Dash, cumulative_distance,
                      cumulative_duration, NoteAddress), None)
    /\ idx' = idx + 1
    /\ UNCHANGED <<current, current_name, cumulative_distance,
                   cumulative_duration, group_distance, group_duration, pc>>

\* `if not dest_result:` ... `continue`
AddressUnresolved(i) ==
    /\ Emit(DetailRow(i, current_name, Dash, Dash, cumulative_distance,
                      cumulative_duration, NoteAddress), None)
    /\ current_name' = df[i].name
    /\ idx' = idx + 1
    /\ UNCHANGED <<current, cumulative_distance, cumulative_duration,
                   group_distance, group_duration, pc>>

\* a mutant of RouteSucceeded: app.py's group totals are not added to
RouteSucceededGroupLags(i, rr) ==
    /\ cumulative_distance' = cumulative_distance + rr[1]
    /\ cumulative_duration' = cumulative_duration + rr[2]
    /\ UNCHANGED <<group_distance, group_duration>>
    /\ Emit(DetailRow(i, current_name, meters_to_km(rr[1]),
                      seconds_to_minutes(rr[2]), cumulative_distance',
                      cumulative_duration', NoteOk), rr)

\* a mutant of RouteSucceeded: the row is built before the totals are updated
RouteSucceededStaleTotals(i, rr) ==
    /\ cumulative_distance' = cumulative_distance + rr[1]
    /\ cumulative_duration' = cumulative_duration + rr[2]
    /\ IF prog = "app"
       THEN /\ group_distance' = group_distance + rr[1]
            /\ group_duration' = group_duration + rr[2]
       ELSE UNCHANGED <<group_distance, group_duration>>
    /\ Emit(DetailRow(i, current_name, meters_to_km(rr[1]),
                      seconds_to_minutes(rr[2]), cumulative_distance,
                      cumulative_duration, NoteOk), rr)

\* `if route_result:` the totals grow, then the row is appended
RouteSucceeded(i, rr) ==
    /\ cumulative_distance' = cumulative_distance + rr[1]
    /\ cumulative_duration' = cumulative_duration + rr[2]
    /\ IF prog = "app"
       THEN /\ group_distance' = group_distance + rr[1]
            /\ group_duration' = group_duration + rr[2]
       ELSE UNCHANGED <<group_distance, group_duration>>
    /\ Emit(DetailRow(i, current_name, meters_to_km(rr[1]),
                      seconds_to_minutes(rr[2]), cumulative_distance',
                      cumulative_duration', NoteOk), rr)

\* a mutant of RouteFailed: a failed route leaves no row
RouteFailedNoRow(i) ==
    UNCHANGED <<results, all_results, raw, cumulative_distance,
                cumulative_duration, group_distance, group_duration>>

\* `else:` the route failed
RouteFailed(i) ==
    /\ Emit(DetailRow(i, current_name, Dash, Dash, cumulative_distance,
                      cumulative_duration, NoteRoute), None)
    /\ UNCHANGED <<cumulative_distance, cumulative_duration, group_distance,
                   group_duration>>

\* a mutant of AdvanceCursor: a failed route leaves the cursor where it was
AdvanceCursorOnSuccessOnly(i, rr) ==
    /\ current' = IF rr # None THEN dest ELSE current
    /\ current_name' = IF rr # None THEN df[i].name ELSE current_name
    /\ idx' = idx + 1

\* the end of the loop body: current_x, current_y = dest_x, dest_y
AdvanceCursor(i, rr) ==
    /\ current' = dest
    /\ current_name' = df[i].name
    /\ idx' = idx + 1

----------------------------------------------------------------------------
(* Actions of the two programs *)

\* tms_excel_processor.get_origin_address: one pass of its `while True`
GetOriginAddress ==
    /\ pc = "origin"
    /\ prog = "cli"
    /\ originTries < MaxOriginTries
    /\ originTries' = originTries + 1
    /\ \E address \in OriginInputs :
          IF address = ""
          THEN OriginEntered(address) /\ UNCHANGED <<geoLog, origin_coords, pc>>
          ELSE \E s, kw \in GeoResponses(OriginPoint) :
                  LET r == validate_address(s, kw)
                  IN  /\ OriginReplays(r # None)
                      /\ geoLog' = Append(geoLog, [target |-> 0, ok |-> r # None])
                      /\ IF r # None
                         THEN origin_coords' = r /\ pc' = "load"
                         ELSE UNCHANGED <<origin_coords, pc>>
    /\ UNCHANGED <<scriptVars, calcVars, runs, prog, df, first, columns, missing_columns, outcome, runVars,
                   routeVars>>

\* a mutant of OriginFailed: the calculation goes on without an origin
OriginFailedGoesOn ==
    /\ pc' = "load"
    /\ UNCHANGED <<outcome, origin_coords>>

\* app.py: `if not origin_result: st.error(...)`
OriginFailed ==
    /\ outcome' = "origin_unresolved"
    /\ pc' = "done"
    /\ UNCHANGED origin_coords

\* a mutant of CalcExcelClicked: an attempt that fails clears the stored
\* results
CalcExcelClickedClearsResults ==
    /\ pc = "origin"
    /\ prog = "app"
    /\ \E address \in OriginInputs :
          IF address = ""
          THEN /\ OriginEntered(address)
               /\ outcome' = "origin_empty"
               /\ pc' = "done"
               /\ saved' = None
               /\ UNCHANGED <<geoLog, origin_coords>>
          ELSE IF df = <<>>
          THEN /\ outcome' = "no_customers"
               /\ pc' = "done"
               /\ saved' = None
               /\ UNCHANGED <<geoLog, origin_coords>>
          ELSE \E s, kw \in GeoResponses(OriginPoint) :
                  LET r == validate_address(s, kw)
                  IN  /\ OriginReplays(r # None)
                      /\ geoLog' = Append(geoLog, [target |-> 0, ok |-> r # None])
                      /\ IF r = None
                         THEN OriginFailed /\ saved' = None
                         ELSE /\ origin_coords' = r
                              /\ pc' = "load"
                              /\ UNCHANGED <<outcome, saved>>
    /\ UNCHANGED <<scriptVars, calcVars, runs, prog, df, first, columns, missing_columns,
                   originTries, groups, gi, group_df, idx, current,
                   current_name, cumulative_distance, cumulative_duration,
                   group_distance, group_duration, dest, route_result, results,
                   all_results, summary_results, routeLog, raw, routeVars>>

\* app.py: the "경로 계산" button of the Excel tab, up to the origin check
CalcExcelClicked ==
    /\ pc = "origin"
    /\ prog = "app"
    /\ \E address \in OriginInputs :
          IF address = ""
          THEN /\ OriginEntered(address)
               /\ outcome' = "origin_empty"
               /\ pc' = "done"
               /\ UNCHANGED <<geoLog, origin_coords>>
          ELSE IF df = <<>>
          THEN /\ outcome' = "no_customers"
               /\ pc' = "done"
               /\ UNCHANGED <<geoLog, origin_coords>>
          ELSE \E s, kw \in GeoResponses(OriginPoint) :
                  LET r == validate_address(s, kw)
                  IN  /\ OriginReplays(r # None)
                      /\ geoLog' = Append(geoLog, [target |-> 0, ok |-> r # None])
                      /\ IF r = None
                         THEN OriginFailed
                         ELSE /\ origin_coords' = r
                              /\ pc' = "load"
                              /\ UNCHANGED outcome
    /\ UNCHANGED <<scriptVars, calcVars, runs, prog, df, first, columns, missing_columns, originTries,
                   runVars, routeVars>>

\* a mutant of LoadGroups: the result lists are not created anew
LoadGroupsKeepsLists ==
    /\ pc = "load"
    /\ MissingColumns(columns) = <<>>
    /\ groups' = GroupKeys(df)
    /\ gi' = 1
    /\ pc' = "group_loop"
    /\ UNCHANGED <<scriptVars, calcVars, runs, prog, df, first, columns, missing_columns, outcome, originTries, origin_coords,
                   group_df, idx, current, current_name, cumulative_distance,
                   cumulative_duration, group_distance, group_duration, dest,
                   route_result, results, all_results, summary_results, saved,
                   geoLog, routeLog, raw, routeVars>>

\* the data frame is grouped and the result lists are created
LoadGroups ==
    /\ pc = "load"
    /\ MissingColumns(columns) = <<>>
    /\ groups' = GroupKeys(df)
    /\ gi' = 1
    /\ all_results' = <<>>
    /\ summary_results' = <<>>
    /\ pc' = "group_loop"
    /\ UNCHANGED <<scriptVars, calcVars, runs, prog, df, first, columns, missing_columns, outcome, originTries, origin_coords, group_df, idx,
                   current, current_name, cumulative_distance,
                   cumulative_duration, group_distance, group_duration, dest,
                   route_result, results, saved, geoLog, routeLog, raw,
                   routeVars>>

\* a mutant of BeginGroup: the cursor and the totals of the previous group
\* are kept
BeginGroupKeepsTotals ==
    /\ pc = "group_loop"
    /\ gi <= Len(groups)
    /\ \E p \in SortedOrders(df, GroupRows(df, groups[gi])) :
          OrderReplays(p) /\ group_df' = p
    /\ current' = IF gi = 1 THEN origin_coords ELSE current
    /\ current_name' = IF gi = 1 THEN OriginLabel ELSE current_name
    /\ cumulative_distance' = IF gi = 1 THEN 0 ELSE cumulative_distance
    /\ cumulative_duration' = IF gi = 1 THEN 0 ELSE cumulative_duration
    /\ group_distance' = 0
    /\ group_duration' = 0
    /\ results' = <<>>
    /\ idx' = 1
    /\ pc' = "stop_loop"
    /\ UNCHANGED <<scriptVars, calcVars, runs, prog, df, first, columns, missing_columns, outcome, originTries, origin_coords, groups,
                   gi, dest, route_result, all_results, summary_results, saved,
                   geoLog, routeLog, raw, routeVars>>

\* the next group: sorted, cursor at the origin, totals at zero
BeginGroup ==
    /\ pc = "group_loop"
    /\ gi <= Len(groups)
    /\ \E p \in SortedOrders(df, GroupRows(df, groups[gi])) :
          OrderReplays(p) /\ group_df' = p
    /\ current' = origin_coords
    /\ current_name' = OriginLabel
    /\ cumulative_distance' = 0
    /\ cumulative_duration' = 0
    /\ group_distance' = 0
    /\ group_duration' = 0
    /\ results' = <<>>
    /\ idx' = 1
    /\ pc' = "stop_loop"
    /\ UNCHANGED <<scriptVars, calcVars, runs, prog, df, first, columns, missing_columns, outcome, originTries, origin_coords, groups, gi,
                   dest, route_result, all_results, summary_results, saved,
                   geoLog, routeLog, raw, routeVars>>

\* the loop body up to the call of calculate_route
ResolveStop ==
    /\ pc = "stop_loop"
    /\ idx <= Len(group_df)
    /\ df[group_df[idx]].seq # NaN
    /\ LET i == group_df[idx]
       IN  \E s, kw \in GeoResponses(StopPoint(i)) :
              LET r == validate_address(s, kw)
              IN  /\ GeoReplays(i, r # None)
                  /\ geoLog' = Append(geoLog, [target |-> i, ok |-> r # None])
                  /\ IF r = None
                     THEN AddressUnresolved(i) /\ UNCHANGED dest
                     ELSE /\ dest' = r
                          /\ pc' = "route"
                          /\ UNCHANGED <<idx, current, current_name,
                                         cumulative_distance, cumulative_duration,
                                         group_distance, group_duration, results,
                                         all_results, raw>>
    /\ UNCHANGED <<scriptVars, calcVars, runs, prog, df, first, columns, missing_columns, outcome, originTries, origin_coords, groups, gi,
                   group_df, route_result, summary_results, saved, routeLog,
                   routeVars>>

\* the loop body from the call of calculate_route to its end
RouteStop ==
    /\ pc = "route"
    /\ \E script \in ItineraryScripts :
          LET i  == group_df[idx]
              rr == calculate_route(current, dest, script).result
          IN  /\ RouteReplays(current, dest, rr)
              /\ route_result' = rr
              /\ routeLog' = Append(routeLog, [row |-> i, from |-> current, to |-> dest,
                                             result |-> rr])
              /\ IF rr # None THEN RouteSucceeded(i, rr) ELSE RouteFailed(i)
              /\ AdvanceCursor(i, rr)
    /\ pc' = "stop_loop"
    /\ UNCHANGED <<scriptVars, calcVars, runs, prog, df, first, columns, missing_columns, outcome, originTries, origin_coords, groups, gi,
                   group_df, dest, summary_results, saved, geoLog, routeVars>>

\* a mutant of GroupSummary: only the stops that were routed are counted
GroupSummaryCountsRouted ==
    SummaryRow(groups[gi],
               Cardinality({j \in 1..Len(Emitted) :
                               Emitted[j].veh = groups[gi] /\ Emitted[j].note = NoteOk}),
               IF prog = "cli" THEN cumulative_distance ELSE group_distance,
               IF prog = "cli" THEN cumulative_duration ELSE group_duration)

\* the summary of the group that just ended: len(group_df) stops, the totals
\* process_group returned (cli) or group_distance / group_duration (app)
GroupSummary ==
    SummaryRow(groups[gi], Len(group_df),
               IF prog = "cli" THEN cumulative_distance ELSE group_distance,
               IF prog = "cli" THEN cumulative_duration ELSE group_duration)

\* the group's loop is over: its rows are collected (cli: process_group
\* returns, its frame is gone) and its summary is appended
EndGroup ==
    /\ pc = "stop_loop"
    /\ idx > Len(group_df)
    /\ all_results' = Emitted
    /\ results' = <<>>
    /\ summary_results' = Append(summary_results, GroupSummary)
    /\ dest' = IF prog = "cli" THEN None ELSE dest
    /\ route_result' = IF prog = "cli" THEN None ELSE route_result
    /\ gi' = gi + 1
    /\ pc' = "group_loop"
    /\ UNCHANGED <<scriptVars, calcVars, runs, prog, df, first, columns, missing_columns, outcome, originTries, origin_coords, groups,
                   group_df, idx, current, current_name, cumulative_distance,
                   cumulative_duration, group_distance, group_duration, saved,
                   geoLog, routeLog, raw, routeVars>>

\* every group is done: save_to_excel / st.session_state.results, .summary
Finish ==
    /\ pc = "group_loop"
    /\ gi > Len(groups)
    /\ saved' = <<all_results, summary_results>>
    /\ outcome' = "ok"
    /\ pc' = "done"
    /\ UNCHANGED <<scriptVars, calcVars, runs, prog, df, first, columns, missing_columns, originTries, origin_coords, groups, gi, group_df,
                   idx, current, current_name, cumulative_distance,
                   cumulative_duration, group_distance, group_duration, dest,
                   route_result, results, all_results, summary_results, geoLog,
                   routeLog, raw, routeVars>>

\* A second calculation in the same process: cli, choice "2" again at the
\* menu of main; app, the button again. No variable of the program is reset
\* by the request itself; the first run's answers and output are remembered
\* and the histories start anew.
Rerun ==
    /\ pc = "done"
    /\ outcome = "ok"
    /\ first = None
    /\ first' = [geo |-> SelectSeq(geoLog, LAMBDA e : e.target # 0),
                  route |-> routeLog, saved |-> saved]
    /\ pc' = "origin"
    /\ outcome' = ""
    /\ originTries' = 0
    /\ geoLog' = <<>>
    /\ routeLog' = <<>>
    /\ raw' = <<>>
    /\ UNCHANGED <<scriptVars, calcVars, runs, prog, df, columns, missing_columns, origin_coords, groups, gi,
                   group_df, idx, current,
                   current_name, cumulative_distance, cumulative_duration,
                   group_distance, group_duration, dest, route_result, results,
                   all_results, summary_results, saved, routeVars>>

Next ==
    \/ GetOriginAddress
    \/ CalcExcelClicked
    \/ LoadGroups
    \/ BeginGroup
    \/ ResolveStop
    \/ RouteStop
    \/ EndGroup
    \/ Finish

Spec == Init /\ [][Next]_vars

\* tms_excel_processor.main: the file lacks required columns; the error
\* names them and `continue` returns to the menu
RejectColumns ==
    /\ pc = "load"
    /\ prog = "cli"
    /\ MissingColumns(columns) # <<>>
    /\ missing_columns' = MissingColumns(columns)
    /\ outcome' = "missing_columns"
    /\ pc' = "done"
    /\ UNCHANGED <<scriptVars, calcVars, runs, prog, df, first, columns, originTries, origin_coords, geoLog,
                   runVars, routeVars>>

\* app.py: a file is uploaded. With all required columns its rows become
\* st.session_state.customers; without, the error names the missing columns
\* and the customers stay as the session began, empty. From here on df is
\* the data frame that the calculation builds from the customers.
UploadExcel ==
    /\ pc = "upload"
    /\ prog = "app"
    /\ IF MissingColumns(columns) # <<>>
       THEN /\ missing_columns' = MissingColumns(columns)
            /\ df' = <<>>
       ELSE UNCHANGED <<missing_columns, df>>
    /\ pc' = "origin"
    /\ UNCHANGED <<scriptVars, calcVars, runs, prog, first, columns, outcome, originTries, origin_coords,
                   geoLog, runVars, routeVars>>

----------------------------------------------------------------------------
(* The coordinate resolver on its own: one call of validate_address, the    *)
(* two lookups answered in any way                                          *)

\* the coordinates the lookups may answer with
GeoPoints == {StopPoint(i) : i \in 0..GeoPointCount}

InitGeo ==
    /\ prog = "cli"
    /\ columns = {required_columns[j] : j \in 1..Len(required_columns)}
    /\ df = <<>>
    /\ InitRun
    /\ pc = "origin"
    /\ rOrigin = None
    /\ rDest = None
    /\ rScript = None
    /\ rCall = None

\* the address strings asked for
Queries == {<<"addr1">>, <<"addr2">>}

\* display forms a document may carry (a string is the tuple of it, absent
\* is None)
RoadForm == <<"road form">>
GeneralForm == <<"general form">>

\* the first document of the address lookup: road says whether road_address
\* is a non-empty object, roadName is its address_name, addr the document's
\* address_name
StructuredDocs(p) ==
    {[kind |-> "ok", pt |-> p, road |-> r[1], roadName |-> r[2], addr |-> a] :
        r \in {<<FALSE, None>>, <<TRUE, None>>, <<TRUE, RoadForm>>},
        a \in {None, GeneralForm}}

\* the first document of the keyword lookup: roadName is road_address_name
\* (None: missing or empty), addr is address_name
KeywordDocs(p) ==
    {[kind |-> "ok", pt |-> p, roadName |-> r, addr |-> a] :
        r \in {None, RoadForm}, a \in {None, GeneralForm}}

\* a mutant of lookups: the keyword lookup is made in any case
lookupsBoth(address, s) ==
    << [endpoint |-> "address", query |-> address],
       [endpoint |-> "keyword", query |-> address] >>

\* the requests validate_address sends: the address lookup and, when that
\* did not return from inside its try block, the keyword lookup
lookups(address, s) ==
    << [endpoint |-> "address", query |-> address] >>
    \o (IF GeoTier(s) # None THEN <<>>
        ELSE << [endpoint |-> "keyword", query |-> address] >>)

\* a mutant of structured_display: the general form stands in for a road
\* address without a name
structured_displayChain(address, s) ==
    IF s.road /\ s.roadName # None THEN s.roadName
    ELSE IF s.addr # None THEN s.addr ELSE address

\* formatted_address of the address lookup
structured_display(address, s) ==
    IF s.road
    THEN (IF s.roadName # None THEN s.roadName ELSE address)
    ELSE (IF s.addr # None THEN s.addr ELSE address)

\* formatted_address of the keyword lookup
keyword_display(address, kw) ==
    IF kw.roadName # None THEN kw.roadName
    ELSE IF kw.addr # None THEN kw.addr ELSE address

\* the third component of what validate_address returns, None with None
formatted_address(address, s, kw) ==
    IF GeoTier(s) # None THEN structured_display(address, s)
    ELSE IF GeoTier(kw) # None THEN keyword_display(address, kw)
    ELSE None

ValidateAddress ==
    /\ gCall = None
    /\ \E p, q \in GeoPoints, address \in Queries :
          \E s \in GeoFailures \cup StructuredDocs(p),
             kw \in GeoFailures \cup KeywordDocs(q) :
             gCall' = [address |-> address, structured |-> s, keyword |-> kw,
                       calls |-> lookups(address, s),
                       result |-> validate_address(s, kw),
                       formatted |-> formatted_address(address, s, kw)]
    /\ UNCHANGED <<scriptVars, calcVars, runs, prog, df, first, columns, missing_columns, pc, outcome,
                   originTries, origin_coords, geoLog, runVars, rOrigin, rDest,
                   rScript, rCall>>

\* one call of validate_address
NextGeo == ValidateAddress

SpecGeo == InitGeo /\ [][NextGeo]_vars

----------------------------------------------------------------------------
(* The column check ahead of the calculation *)

\* the programs from the reading of the file on
InitSheet ==
    /\ prog \in {"cli", "app"}
    /\ columns \in ColumnSets
    /\ df \in {SheetRows(c, columns) : c \in StopLists}
    /\ InitRun
    /\ pc = IF prog = "app" THEN "upload" ELSE "origin"
    /\ rOrigin = None
    /\ rDest = None
    /\ rScript = None
    /\ rCall = None

NextSheet ==
    \/ Next
    \/ RejectColumns
    \/ UploadExcel

SpecSheet == InitSheet /\ [][NextSheet]_vars

\* the same program, run up to twice
NextRerun ==
    \/ Next
    \/ Rerun

SpecRerun == Init /\ [][NextRerun]_vars

----------------------------------------------------------------------------
(* The resolver on its own: one call of calculate_route on a pair of        *)
(* coordinates, against every script of RouteScripts                        *)

InitRoute ==
    /\ prog = "cli"
    /\ columns = {required_columns[j] : j \in 1..Len(required_columns)}
    /\ df = <<>>
    /\ InitRun
    /\ pc = "origin"
    /\ rOrigin \in RouteOrigins
    /\ rDest \in RouteDests
    /\ rScript = None
    /\ rCall = None

CalculateRoute ==
    /\ rCall = None
    /\ \E script \in RouteScripts :
          /\ rScript' = script
          /\ rCall' = calculate_route(rOrigin, rDest, script)
    /\ UNCHANGED <<scriptVars, calcVars, runs, prog, df, first, columns, missing_columns, pc, outcome,
                   originTries, origin_coords, geoLog, runVars, rOrigin, rDest,
                   gCall>>

\* one call of calculate_route
NextRoute == CalculateRoute

SpecRoute == InitRoute /\ [][NextRoute]_vars

----------------------------------------------------------------------------
(* app.py, the manual-entry tab: the rows of the data editor are routed by   *)
(* the tab's own loop; its lists are locals of the script run and `saved`    *)
(* holds what the two st.dataframe calls at its end have put on the page     *)

\* format_distance: round(meters / 1000, 1) followed by " km"
format_distance(meters) == [km |-> meters_to_km(meters), unit |-> "km"]

\* the state when the manual tab is drawn: the rows of the data editor
InitManual ==
    /\ prog = "manual"
    /\ columns = {required_columns[j] : j \in 1..Len(required_columns)}
    /\ df \in {MakeDf(c) : c \in StopLists}
    /\ InitRun
    /\ pc = "origin"
    /\ rOrigin = None
    /\ rDest = None
    /\ rScript = None
    /\ rCall = None

\* the "경로 계산" button of the manual tab, up to the origin check
CalcManualClicked ==
    /\ pc = "origin"
    /\ prog = "manual"
    /\ \E address \in OriginInputs :
          IF address = ""
          THEN /\ outcome' = "origin_empty"
               /\ pc' = "done"
               /\ UNCHANGED <<geoLog, origin_coords>>
          ELSE IF df = <<>>
          THEN /\ outcome' = "no_customers"
               /\ pc' = "done"
               /\ UNCHANGED <<geoLog, origin_coords>>
          ELSE \E s, kw \in GeoResponses(OriginPoint) :
                  LET r == validate_address(s, kw)
                  IN  /\ geoLog' = Append(geoLog, [target |-> 0, ok |-> r # None])
                      /\ IF r = None
                         THEN OriginFailed
                         ELSE /\ origin_coords' = r
                              /\ pc' = "load"
                              /\ UNCHANGED outcome
    /\ UNCHANGED <<scriptVars, calcVars, runs, prog, df, first, columns, missing_columns, originTries,
                   runVars, routeVars>>

\* the dict appended to all_results: vehicle, "from → to", distance, time
ManualRow(i, fromName, rr) ==
    [veh |-> groups[gi], from |-> fromName, to |-> df[i].name,
     dist |-> format_distance(rr[1]), time |-> format_duration(rr[2])]

\* `if route_result:` the totals grow and the row is appended
ManualRouteSucceeded(i, rr) ==
    /\ cumulative_distance' = cumulative_distance + rr[1]
    /\ cumulative_duration' = cumulative_duration + rr[2]
    /\ all_results' = Append(all_results, ManualRow(i, current_name, rr))
    /\ raw' = Append(raw, rr)

\* a mutant of ManualRouteFailed: a failed route is shown as a row of zeros
ManualRouteFailedEmitsRow(i) ==
    /\ all_results' = Append(all_results, ManualRow(i, current_name, <<0, 0>>))
    /\ raw' = Append(raw, None)
    /\ UNCHANGED <<cumulative_distance, cumulative_duration>>

\* the route failed: the `if route_result:` has no else branch
ManualRouteFailed(i) ==
    UNCHANGED <<all_results, raw, cumulative_distance, cumulative_duration>>

\* the loop body up to the call of calculate_route; when the address does
\* not resolve only current_name changes
ManualResolveStop ==
    /\ pc = "stop_loop"
    /\ prog = "manual"
    /\ idx <= Len(group_df)
    /\ LET i == group_df[idx]
       IN  \E s, kw \in GeoResponses(StopPoint(i)) :
              LET r == validate_address(s, kw)
              IN  /\ geoLog' = Append(geoLog, [target |-> i, ok |-> r # None])
                  /\ IF r = None
                     THEN /\ current_name' = df[i].name
                          /\ idx' = idx + 1
                          /\ UNCHANGED <<dest, pc>>
                     ELSE /\ dest' = r
                          /\ pc' = "route"
                          /\ UNCHANGED <<idx, current_name>>
    /\ UNCHANGED <<scriptVars, calcVars, runs, prog, df, first, columns, missing_columns, outcome,
                   originTries, origin_coords, groups, gi, group_df, current,
                   cumulative_distance, cumulative_duration, group_distance,
                   group_duration, route_result, results, all_results,
                   summary_results, saved, routeLog, raw, routeVars>>

\* the loop body from the call of calculate_route to its end
ManualRouteStop ==
    /\ pc = "route"
    /\ prog = "manual"
    /\ \E script \in ItineraryScripts :
          LET i  == group_df[idx]
              rr == calculate_route(current, dest, script).result
          IN  /\ route_result' = rr
              /\ routeLog' = Append(routeLog, [row |-> i, from |-> current,
                                             to |-> dest, result |-> rr])
              /\ IF rr # None THEN ManualRouteSucceeded(i, rr)
                              ELSE ManualRouteFailed(i)
              /\ current' = dest
              /\ current_name' = df[i].name
              /\ idx' = idx + 1
    /\ pc' = "stop_loop"
    /\ UNCHANGED <<scriptVars, calcVars, runs, prog, df, first, columns, missing_columns, outcome,
                   originTries, origin_coords, groups, gi, group_df, dest,
                   group_distance, group_duration, results, summary_results,
                   saved, geoLog, routeVars>>

\* the dict appended to summary_results
ManualSummary ==
    [veh |-> groups[gi], totalDist |-> format_distance(cumulative_distance),
     totalTime |-> format_duration(cumulative_duration)]

\* the group's loop is over: its summary is appended
ManualEndGroup ==
    /\ pc = "stop_loop"
    /\ prog = "manual"
    /\ idx > Len(group_df)
    /\ summary_results' = Append(summary_results, ManualSummary)
    /\ gi' = gi + 1
    /\ pc' = "group_loop"
    /\ UNCHANGED <<scriptVars, calcVars, runs, prog, df, first, columns, missing_columns, outcome,
                   originTries, origin_coords, groups, group_df, idx, current,
                   current_name, cumulative_distance, cumulative_duration,
                   group_distance, group_duration, dest, route_result, results,
                   all_results, saved, geoLog, routeLog, raw, routeVars>>

\* a mutant of ManualFinish: the two tables are drawn whatever they hold
ManualFinishAlwaysShows ==
    /\ pc = "group_loop"
    /\ prog = "manual"
    /\ gi > Len(groups)
    /\ saved' = <<all_results, summary_results>>
    /\ outcome' = "ok"
    /\ pc' = "done"
    /\ UNCHANGED <<scriptVars, calcVars, runs, prog, df, first, columns, missing_columns, originTries,
                   origin_coords, groups, gi, group_df, idx, current,
                   current_name, cumulative_distance, cumulative_duration,
                   group_distance, group_duration, dest, route_result, results,
                   all_results, summary_results, geoLog, routeLog, raw,
                   routeVars>>

\* every group is done: `if all_results:` the two tables are drawn
ManualFinish ==
    /\ pc = "group_loop"
    /\ prog = "manual"
    /\ gi > Len(groups)
    /\ saved' = IF all_results # <<>> THEN <<all_results, summary_results>>
                                      ELSE saved
    /\ outcome' = "ok"
    /\ pc' = "done"
    /\ UNCHANGED <<scriptVars, calcVars, runs, prog, df, first, columns, missing_columns, originTries,
                   origin_coords, groups, gi, group_df, idx, current,
                   current_name, cumulative_distance, cumulative_duration,
                   group_distance, group_duration, dest, route_result, results,
                   all_results, summary_results, geoLog, routeLog, raw,
                   routeVars>>

NextManual ==
    \/ CalcManualClicked
    \/ LoadGroups
    \/ BeginGroup
    \/ ManualResolveStop
    \/ ManualRouteStop
    \/ ManualEndGroup
    \/ ManualFinish

SpecManual == InitManual /\ [][NextManual]_vars

----------------------------------------------------------------------------
(* tms_distance_calculator.main: the origin is asked for, the customers     *)
(* written in the source are geocoded, those that resolve are sorted and    *)
(* routed one after the other                                                *)

\* the customers list of main: four stops, 운행순번 1 to 4
customers ==
    [i \in 1..4 |-> [veh |-> "V1", seq |-> i, name |-> CustomerNames[i],
                     addr |-> CustomerAddresses[i]]]

\* formatted origin addresses, as the words str.split() gives
OriginNames == {<<"w1", "w2">>, <<"w1", "w2", "w3", "w4">>}

\* current_name at the start: the last word of a name of more than two words
ShortName(name) == IF Len(name) > 2 THEN <<name[Len(name)]>> ELSE name

InitCalc ==
    /\ prog = "calc"
    /\ columns = {required_columns[j] : j \in 1..Len(required_columns)}
    /\ df = customers
    /\ InitRun
    /\ pc = "origin"
    /\ rOrigin = None
    /\ rDest = None
    /\ rScript = None
    /\ rCall = None

\* get_user_input_address: one pass of its `while True`
GetUserInputAddress ==
    /\ pc = "origin"
    /\ prog = "calc"
    /\ originTries < MaxOriginTries
    /\ originTries' = originTries + 1
    /\ \E address \in OriginInputs :
          IF address = ""
          THEN UNCHANGED <<geoLog, origin_coords, origin_name, idx, pc>>
          ELSE \E s, kw \in GeoResponses(OriginPoint) : \E words \in OriginNames :
                  LET r == validate_address(s, kw)
                  IN  /\ geoLog' = Append(geoLog, [target |-> 0, ok |-> r # None])
                      /\ IF r # None
                         THEN /\ origin_coords' = r
                              /\ origin_name' = words
                              /\ idx' = 1
                              /\ pc' = "validate"
                         ELSE UNCHANGED <<origin_coords, origin_name, idx, pc>>
    /\ UNCHANGED <<scriptVars, prog, df, first, columns, missing_columns, outcome, runs,
                   groups, gi, group_df, current, current_name,
                   cumulative_distance, cumulative_duration, group_distance,
                   group_duration, dest, route_result, results, all_results,
                   summary_results, saved, routeLog, raw, routeVars,
                   validated_customers, route_results, total_distance,
                   total_duration>>

\* a mutant of ValidateCustomer: a customer that does not resolve is kept,
\* at the coordinate of the origin
ValidateCustomerKeepsAll ==
    /\ pc = "validate"
    /\ prog = "calc"
    /\ idx <= Len(df)
    /\ \E s, kw \in GeoResponses(StopPoint(idx)) :
          LET r == validate_address(s, kw)
          IN  /\ geoLog' = Append(geoLog, [target |-> idx, ok |-> r # None])
              /\ validated_customers' =
                    Append(validated_customers,
                           [row |-> idx, pt |-> IF r # None THEN r ELSE origin_coords])
    /\ idx' = idx + 1
    /\ UNCHANGED <<scriptVars, prog, df, first, columns, missing_columns, pc, outcome, runs,
                   originTries, origin_coords, origin_name, groups, gi,
                   group_df, current, current_name, cumulative_distance,
                   cumulative_duration, group_distance, group_duration, dest,
                   route_result, results, all_results, summary_results, saved,
                   routeLog, raw, routeVars, route_results, total_distance,
                   total_duration>>

\* one pass of `for customer in customers:` a customer that resolves is
\* appended to validated_customers with its coordinate, another is skipped
ValidateCustomer ==
    /\ pc = "validate"
    /\ prog = "calc"
    /\ idx <= Len(df)
    /\ \E s, kw \in GeoResponses(StopPoint(idx)) :
          LET r == validate_address(s, kw)
          IN  /\ geoLog' = Append(geoLog, [target |-> idx, ok |-> r # None])
              /\ validated_customers' =
                    IF r # None
                    THEN Append(validated_customers, [row |-> idx, pt |-> r])
                    ELSE validated_customers
    /\ idx' = idx + 1
    /\ UNCHANGED <<scriptVars, prog, df, first, columns, missing_columns, pc, outcome, runs,
                   originTries, origin_coords, origin_name, groups, gi,
                   group_df, current, current_name, cumulative_distance,
                   cumulative_duration, group_distance, group_duration, dest,
                   route_result, results, all_results, summary_results, saved,
                   routeLog, raw, routeVars, route_results, total_distance,
                   total_duration>>

\* list.sort(key=운행순번): stable, ascending
RECURSIVE SortBySequence(_)
SortBySequence(cs) ==
    IF cs = <<>> THEN <<>>
    ELSE LET m == CHOOSE k \in 1..Len(cs) :
                     /\ \A j \in 1..Len(cs) : df[cs[k].row].seq <= df[cs[j].row].seq
                     /\ \A j \in 1..(k - 1) : df[cs[j].row].seq # df[cs[k].row].seq
         IN  <<cs[m]>> \o SortBySequence([j \in 1..(Len(cs) - 1) |->
                                             IF j < m THEN cs[j] ELSE cs[j + 1]])

\* the geocoding loop is over: without a valid customer main returns, else
\* the list is sorted and the routing loop is set up
SortCustomers ==
    /\ pc = "validate"
    /\ prog = "calc"
    /\ idx > Len(df)
    /\ IF validated_customers = <<>>
       THEN /\ outcome' = "no_valid_customers"
            /\ pc' = "done"
            /\ UNCHANGED <<validated_customers, route_results, total_distance,
                           total_duration, current, current_name, idx>>
       ELSE /\ validated_customers' = SortBySequence(validated_customers)
            /\ route_results' = <<>>
            /\ total_distance' = 0
            /\ total_duration' = 0
            /\ current' = origin_coords
            /\ current_name' = ShortName(origin_name)
            /\ idx' = 1
            /\ pc' = "route"
            /\ UNCHANGED outcome
    /\ UNCHANGED <<scriptVars, prog, df, first, columns, missing_columns, runs, originTries,
                   origin_coords, origin_name, groups, gi, group_df,
                   cumulative_distance, cumulative_duration, group_distance,
                   group_duration, dest, route_result, results, all_results,
                   summary_results, saved, geoLog, routeLog, raw, routeVars>>

\* one pass of `for customer in validated_customers:`
RouteCustomer ==
    /\ pc = "route"
    /\ prog = "calc"
    /\ idx <= Len(validated_customers)
    /\ \E script \in ItineraryScripts :
          LET c  == validated_customers[idx]
              rr == calculate_route(current, c.pt, script).result
          IN  /\ route_result' = rr
              /\ routeLog' = Append(routeLog, [row |-> c.row, from |-> current,
                                             to |-> c.pt, result |-> rr])
              /\ IF rr # None
                 THEN /\ total_distance' = total_distance + rr[1]
                      /\ total_duration' = total_duration + rr[2]
                      /\ route_results' =
                            Append(route_results,
                                   [from |-> current_name, to |-> <<df[c.row].name>>,
                                    dist |-> rr[1], time |-> rr[2], error |-> FALSE])
                 ELSE /\ route_results' =
                            Append(route_results,
                                   [from |-> current_name, to |-> <<df[c.row].name>>,
                                    dist |-> 0, time |-> 0, error |-> TRUE])
                      /\ UNCHANGED <<total_distance, total_duration>>
              /\ dest' = c.pt
              /\ current' = c.pt
              /\ current_name' = <<df[c.row].name>>
    /\ idx' = idx + 1
    /\ UNCHANGED <<scriptVars, prog, df, first, columns, missing_columns, pc, outcome, runs,
                   originTries, origin_coords, origin_name, groups, gi,
                   group_df, cumulative_distance, cumulative_duration,
                   group_distance, group_duration, results, all_results,
                   summary_results, saved, geoLog, raw, routeVars,
                   validated_customers>>

\* the routing loop is over: the report is printed
PrintReport ==
    /\ pc = "route"
    /\ prog = "calc"
    /\ idx > Len(validated_customers)
    /\ outcome' = "ok"
    /\ pc' = "done"
    /\ UNCHANGED <<scriptVars, calcVars, runs, prog, df, first, columns, missing_columns,
                   originTries, origin_coords, groups, gi, group_df, idx,
                   current, current_name, cumulative_distance,
                   cumulative_duration, group_distance, group_duration, dest,
                   route_result, results, all_results, summary_results, saved,
                   geoLog, routeLog, raw, routeVars>>

NextCalc ==
    \/ GetUserInputAddress
    \/ ValidateCustomer
    \/ SortCustomers
    \/ RouteCustomer
    \/ PrintReport

SpecCalc == InitCalc /\ [][NextCalc]_vars

----------------------------------------------------------------------------
(* app.py over several script runs of one session: st.session_state lives   *)
(* on from run to run, the names of the script are bound anew in each run    *)

\* the customers a later run finds in the session: the uploaded file or the
\* rows of the data editor were changed in between
LaterCustomers == {MakeDf(c) : c \in {l \in StopLists : Len(l) <= 1}}

InitSession ==
    /\ prog = "app"
    /\ columns = {required_columns[j] : j \in 1..Len(required_columns)}
    /\ df \in {MakeDf(c) : c \in StopLists}
    /\ InitRun
    /\ pc = "origin"
    /\ rOrigin = None
    /\ rDest = None
    /\ rScript = None
    /\ rCall = None

\* the script runs again: `if 'results' not in st.session_state` keeps the
\* stored results and summary, every other name starts unbound
NextScriptRun ==
    /\ pc = "done"
    /\ runs < MaxRuns
    /\ runs' = runs + 1
    /\ df' \in LaterCustomers
    /\ pc' = "origin"
    /\ outcome' = ""
    /\ origin_coords' = None
    /\ groups' = <<>>
    /\ gi' = 0
    /\ group_df' = <<>>
    /\ idx' = 0
    /\ current' = None
    /\ current_name' = ""
    /\ cumulative_distance' = 0
    /\ cumulative_duration' = 0
    /\ group_distance' = 0
    /\ group_duration' = 0
    /\ dest' = None
    /\ route_result' = None
    /\ results' = <<>>
    /\ all_results' = <<>>
    /\ summary_results' = <<>>
    /\ geoLog' = <<>>
    /\ routeLog' = <<>>
    /\ raw' = <<>>
    /\ UNCHANGED <<scriptVars, calcVars, prog, first, columns, missing_columns, originTries,
                   saved, routeVars>>

NextSession ==
    \/ CalcExcelClicked
    \/ LoadGroups
    \/ BeginGroup
    \/ ResolveStop
    \/ RouteStop
    \/ EndGroup
    \/ Finish
    \/ NextScriptRun

SpecSession == InitSession /\ [][NextSession]_vars

----------------------------------------------------------------------------
(* tms_excel_processor.main with a sheet in which 운행순번 cells may be empty: *)
(* int(row['운행순번']) raises at such a row and main's `except Exception`    *)
(* prints the error and continues with the menu                              *)

\* sheets whose sequence cells are numbers or empty
SheetsWithGaps ==
    LET choices == [veh : Vehicles, seq : SeqValues \cup {NaN}]
    IN  {MakeDf(c) : c \in UNION {[1..n -> choices] : n \in 0..MaxStops}}

InitRaise ==
    /\ prog = "cli"
    /\ columns = {required_columns[j] : j \in 1..Len(required_columns)}
    /\ df \in SheetsWithGaps
    /\ InitRun
    /\ pc = "origin"
    /\ rOrigin = None
    /\ rDest = None
    /\ rScript = None
    /\ rCall = None

\* a mutant of SequenceRaises: the rows computed so far are written
SequenceRaisesSavesPartial ==
    /\ pc = "stop_loop"
    /\ prog = "cli"
    /\ idx <= Len(group_df)
    /\ df[group_df[idx]].seq = NaN
    /\ saved' = <<all_results \o results, summary_results>>
    /\ results' = <<>>
    /\ outcome' = "error"
    /\ pc' = "done"
    /\ UNCHANGED <<scriptVars, calcVars, runs, prog, df, first, columns, missing_columns,
                   originTries, origin_coords, groups, gi, group_df, idx,
                   current, current_name, cumulative_distance,
                   cumulative_duration, group_distance, group_duration, dest,
                   route_result, all_results, summary_results, geoLog,
                   routeLog, raw, routeVars>>

\* `sequence = int(row['운행순번'])` raises ValueError: process_group's frame
\* and its results list are gone, main's handler prints and continues
SequenceRaises ==
    /\ pc = "stop_loop"
    /\ prog = "cli"
    /\ idx <= Len(group_df)
    /\ df[group_df[idx]].seq = NaN
    /\ results' = <<>>
    /\ outcome' = "error"
    /\ pc' = "done"
    /\ UNCHANGED <<scriptVars, calcVars, runs, prog, df, first, columns, missing_columns,
                   originTries, origin_coords, groups, gi, group_df, idx,
                   current, current_name, cumulative_distance,
                   cumulative_duration, group_distance, group_duration, dest,
                   route_result, all_results, summary_results, saved, geoLog,
                   routeLog, raw, routeVars>>

NextRaise ==
    \/ GetOriginAddress
    \/ LoadGroups
    \/ BeginGroup
    \/ ResolveStop
    \/ RouteStop
    \/ EndGroup
    \/ Finish
    \/ SequenceRaises

SpecRaise == InitRaise /\ [][NextRaise]_vars

----------------------------------------------------------------------------
(* One run of the app.py script from the sidebar to the footer. The blocks  *)
(* at module level run in the order they are written; a name that was not   *)
(* assigned raises NameError and ends the run where it stands               *)

\* the options of the sidebar radio: "🚛 거리 계산", "📋 업데이트 내역"
Menus == {"distance calculator", "update history"}

InitScript ==
    /\ prog = "app"
    /\ columns = {required_columns[j] : j \in 1..Len(required_columns)}
    /\ df \in {MakeDf(c) : c \in StopLists}
    /\ InitRun
    /\ pc = "sidebar"
    /\ rOrigin = None
    /\ rDest = None
    /\ rScript = None
    /\ rCall = None

\* `with st.sidebar:` the radio is drawn and answers with the user's choice
Sidebar ==
    /\ pc = "sidebar"
    /\ menu' \in Menus
    /\ pc' = "menu"
    /\ UNCHANGED <<tabs, raised, calcVars, runs, prog, df, first, columns,
                   missing_columns, outcome, originTries, origin_coords, geoLog,
                   runVars, routeVars>>

\* `if menu == "🚛 거리 계산":` tab1, tab2 = st.tabs([...]) and the Excel tab,
\* whose button was clicked ("origin") or not ("done"); under the other menu
\* the block is skipped
TabsBlock ==
    /\ pc = "menu"
    /\ IF menu = "distance calculator"
       THEN /\ tabs' = {"tab1", "tab2"}
            /\ pc' \in {"origin", "done"}
       ELSE /\ pc' = "done"
            /\ UNCHANGED tabs
    /\ UNCHANGED <<menu, raised, calcVars, runs, prog, df, first, columns,
                   missing_columns, outcome, originTries, origin_coords, geoLog,
                   runVars, routeVars>>

\* `with tab2:` at module level, outside the `if menu` block; inside, the
\* manual tab is drawn with its button not clicked
WithTab2 ==
    /\ pc = "done"
    /\ menu # ""
    /\ raised = ""
    /\ IF "tab2" \in tabs
       THEN pc' = "tab2" /\ UNCHANGED raised
       ELSE pc' = "aborted" /\ raised' = "NameError"
    /\ UNCHANGED <<menu, tabs, calcVars, runs, prog, df, first, columns,
                   missing_columns, outcome, originTries, origin_coords, geoLog,
                   runVars, routeVars>>

\* `with tab3:` the version history, and after it the footer
WithTab3 ==
    /\ pc = "tab2"
    /\ IF "tab3" \in tabs
       THEN pc' = "footer" /\ UNCHANGED raised
       ELSE pc' = "aborted" /\ raised' = "NameError"
    /\ UNCHANGED <<menu, tabs, calcVars, runs, prog, df, first, columns,
                   missing_columns, outcome, originTries, origin_coords, geoLog,
                   runVars, routeVars>>

NextScript ==
    \/ Sidebar
    \/ TabsBlock
    \/ CalcExcelClicked
    \/ LoadGroups
    \/ BeginGroup
    \/ ResolveStop
    \/ RouteStop
    \/ EndGroup
    \/ Finish
    \/ WithTab2
    \/ WithTab3

SpecScript == InitScript /\ [][NextScript]_vars

----------------------------------------------------------------------------
(* Properties *)

Finished == pc = "done" /\ outcome = "ok"

\* the detail rows of vehicle v, in output order
RowsOfVehicle(rows, v) == SelectSeq(rows, LAMBDA r : r.veh = v)

\* the sum of component c (1 metres, 2 seconds) of the route results behind
\* the rows 1..k that belong to vehicle v
RECURSIVE SumBehind(_, _, _, _, _)
SumBehind(rows, rw, v, k, c) ==
    IF k = 0 THEN 0
    ELSE SumBehind(rows, rw, v, k - 1, c)
         + (IF rows[k].veh = v /\ rw[k] # None THEN rw[k][c] ELSE 0)

\* whole minutes shown by a formatted duration
MinutesShown(t) == IF Len(t) = 2 THEN 60 * t[1] + t[2] ELSE t[1]

\* row k and a later row j of the same vehicle
SameVehicleLater(rows, k, j) == k < j /\ rows[k].veh = rows[j].veh

(* C1: the accumulator never drops a stop. While a group is processed it has
   emitted one row for each stop already passed, in the sorted order; when
   the run is over every vehicle has exactly as many rows as input stops,
   one per stop, in ascending sequence order. *)
C1_NeverDropsAStop ==
    /\ pc \in {"stop_loop", "route"} =>
          LET rs == RowsOfVehicle(Emitted, groups[gi])
          IN  /\ Len(rs) = idx - 1
              /\ \A j \in 1..Len(rs) :
                    /\ rs[j].to = df[group_df[j]].name
                    /\ rs[j].seq = df[group_df[j]].seq
    /\ Finished =>
          /\ Len(saved[1]) = Len(df)
          /\ \A v \in Vehicles :
                LET rs == RowsOfVehicle(saved[1], v)
                    g  == GroupRows(df, v)
                IN  /\ Len(rs) = Len(g)
                    /\ \A n \in 1..Len(g) :
                          Cardinality({j \in 1..Len(rs) :
                                          /\ rs[j].to = df[g[n]].name
                                          /\ rs[j].seq = df[g[n]].seq}) = 1
                    /\ \A a, b \in 1..Len(rs) : a < b => rs[a].seq <= rs[b].seq

\* a vehicle whose two stops were given out of order; one did not resolve,
\* the other did not route
C1_Witness ==
    /\ Finished
    /\ Len(df) = 2
    /\ df[1].veh = df[2].veh
    /\ df[1].seq > df[2].seq
    /\ saved[1][1].note = NoteAddress
    /\ saved[1][2].note = NoteRoute

(* C2, as claimed: in every row the cumulative distance and duration equal
   exactly the sum of the distances and durations of the vehicle's successful
   segments so far (1 km = 1000 m, 1 minute = 60 s: nothing is rounded off),
   and they never decrease from row to row. *)
C2_CumulativeExact ==
    \A j \in 1..Len(Emitted) :
        /\ Emitted[j].cumKm[1] * 100 = SumBehind(Emitted, raw, Emitted[j].veh, j, 1)
        /\ MinutesShown(Emitted[j].cumTime) * 60
              = SumBehind(Emitted, raw, Emitted[j].veh, j, 2)
        /\ \A k \in 1..Len(Emitted) :
              SameVehicleLater(Emitted, k, j) =>
                 /\ Emitted[k].cumKm[1] <= Emitted[j].cumKm[1]
                 /\ MinutesShown(Emitted[k].cumTime) <= MinutesShown(Emitted[j].cumTime)

(* C2, amended: the totals behind the rows are the exact sums of the metres
   and seconds of the vehicle's successful segments so far; a row shows them
   rounded to 0.1 km (meters_to_km) and cut to whole minutes
   (format_duration), and the shown values never decrease from row to row. *)
C2_CumulativeRounded ==
    \A j \in 1..Len(Emitted) :
        LET meters  == SumBehind(Emitted, raw, Emitted[j].veh, j, 1)
            seconds == SumBehind(Emitted, raw, Emitted[j].veh, j, 2)
        IN  /\ Emitted[j].cumKm = meters_to_km(meters)
            /\ Emitted[j].cumTime = format_duration(seconds)
            /\ Emitted[j].cumKm[1] * 100 - meters \in -50..50
            /\ seconds - MinutesShown(Emitted[j].cumTime) * 60 \in 0..59
            /\ \A k \in 1..Len(Emitted) :
                  SameVehicleLater(Emitted, k, j) =>
                     /\ Emitted[k].cumKm[1] <= Emitted[j].cumKm[1]
                     /\ MinutesShown(Emitted[k].cumTime)
                           <= MinutesShown(Emitted[j].cumTime)

\* two successful segments of one vehicle, the second row's totals shown
\* rounded: larger than the first row's, not the exact sums, and the
\* distance not the sum of the two segment distances as shown either
C2_Witness ==
    /\ Len(Emitted) = 2
    /\ Emitted[1].veh = Emitted[2].veh
    /\ raw[1] # None
    /\ raw[2] # None
    /\ Emitted[1].cumKm[1] < Emitted[2].cumKm[1]
    /\ Emitted[2].cumKm[1] * 100 # raw[1][1] + raw[2][1]
    /\ MinutesShown(Emitted[2].cumTime) * 60 # raw[1][2] + raw[2][2]
    /\ Emitted[2].cumKm[1] # Emitted[1].dist[1] + Emitted[2].dist[1]

\* the first retry probe (1-based) the script answers with a success, 0 when
\* it answers none
RECURSIVE FirstHitFrom(_, _)
FirstHitFrom(script, j) ==
    IF j > RetryProbes THEN 0
    ELSE IF ProbeSucceeded(TryRoute(script[j])) THEN j
    ELSE FirstHitFrom(script, j + 1)

\* the first response of the script carries an unreachable code
FirstUnreachable(script) ==
    /\ script[0].kind = "route"
    /\ script[0].code \in {104, 105, 106}

\* combination number j (1-based) of the documented retry order: offset
\* ((j - 1) div 3) + 1 of the list, applied (a) to the origin, (b) to the
\* destination, (c) to both
DocumentedFrom(o, j) ==
    IF (j - 1) % 3 \in {0, 2} THEN Shift(o, offsets[((j - 1) \div 3) + 1]) ELSE o

DocumentedTo(d, j) ==
    IF (j - 1) % 3 \in {1, 2} THEN Shift(d, offsets[((j - 1) \div 3) + 1]) ELSE d

(* C3: when the probe of the original pair returns 104, 105 or 106 and the
   Nth combination is the first that succeeds, calculate_route has probed the
   original pair and then exactly the combinations 1..N in the documented
   order (origin moved, destination moved, both moved, offset by offset),
   returns the distance and duration of probe N and probes nothing more. *)
C3_RetryOrder ==
    (rCall # None /\ FirstUnreachable(rScript) /\ FirstHitFrom(rScript, 1) # 0) =>
        LET N == FirstHitFrom(rScript, 1)
        IN  /\ Len(rCall.probes) = N + 1
            /\ rCall.probes[1].from = rOrigin
            /\ rCall.probes[1].to = rDest
            /\ \A j \in 1..N :
                  /\ rCall.probes[j + 1].from = DocumentedFrom(rOrigin, j)
                  /\ rCall.probes[j + 1].to = DocumentedTo(rDest, j)
                  /\ rCall.probes[j + 1].ret = TryRoute(rScript[j])
            /\ rCall.result = rScript[N].summary

\* the fifth combination (second offset, destination moved) succeeds after
\* four failures; the provider would also have answered later probes
C3_Witness ==
    /\ rCall # None
    /\ FirstUnreachable(rScript)
    /\ FirstHitFrom(rScript, 1) = 5
    /\ ProbeSucceeded(TryRoute(rScript[6]))
    /\ Len(rCall.probes) = 6
    /\ rCall.probes[6].from = rOrigin
    /\ rCall.probes[6].to = <<rDest[1] - 5, rDest[2]>>
    /\ rCall.result = <<120000, 3600>>

\* two coordinates less than 100 m apart. In units of 0.0001 degree one unit
\* of longitude is about 8.8 m and one of latitude about 11.1 m (0.001 degree
\* is about 88 m and 111 m); the comparison is made in decimetres.
Near(a, b) ==
    LET dx == 88 * (a[1] - b[1])
        dy == 111 * (a[2] - b[2])
    IN  dx * dx + dy * dy < 1000 * 1000

(* C4, as claimed: for two coordinates less than 100 m apart calculate_route
   returns the success (0, 0) and issues no probe. *)
C4_NearbyShortCircuit ==
    (rCall # None /\ Near(rOrigin, rDest)) =>
        /\ rCall.probes = <<>>
        /\ rCall.result = <<0, 0>>

\* answered by a transport error, a call on one and the same coordinate has
\* issued a probe and returned None
C4_Witness ==
    /\ rCall # None
    /\ rOrigin = rDest
    /\ Len(rCall.probes) = 1
    /\ rCall.result = None

\* the step of the loop body on a stop whose address does not resolve
UnresolvedStep ==
    /\ pc = "stop_loop"
    /\ pc' = "stop_loop"
    /\ geoLog' # geoLog

\* the vehicle of a routed row
RoutedVehicle(k) == df[routeLog[k].row].veh

\* the routes of the same vehicle before route k
EarlierRoutes(k) == {m \in 1..(k - 1) : RoutedVehicle(m) = RoutedVehicle(k)}

\* the largest member of a non-empty set of numbers
Latest(S) == CHOOSE m \in S : \A n \in S : n <= m

\* every route starts where the vehicle's previous route ended, at the last
\* stop of the vehicle that resolved, or at the origin when there is none
RouteFromLastResolved ==
    \A k \in 1..Len(routeLog) :
        routeLog[k].from = IF EarlierRoutes(k) = {} THEN origin_coords
                           ELSE routeLog[Latest(EarlierRoutes(k))].to

(* C5: a stop whose address does not resolve leaves one more row, with no
   segment distance or duration and the note 'address unresolved'; the
   cumulative totals and the current coordinate stay as they were and the
   current label becomes the stop's customer name. So every route is
   computed from the last resolved coordinate of the vehicle, or from the
   origin. *)
C5_UnresolvedFrame ==
    /\ []RouteFromLastResolved
    /\ [][UnresolvedStep =>
          LET i   == group_df[idx]
              row == Emitted'[Len(Emitted')]
          IN  /\ Len(Emitted') = Len(Emitted) + 1
              /\ row.to = df[i].name
              /\ row.from = current_name
              /\ row.dist = Dash
              /\ row.mins = Dash
              /\ row.note = NoteAddress
              /\ row.cumKm = meters_to_km(cumulative_distance)
              /\ row.cumTime = format_duration(cumulative_duration)
              /\ cumulative_distance' = cumulative_distance
              /\ cumulative_duration' = cumulative_duration
              /\ group_distance' = group_distance
              /\ group_duration' = group_duration
              /\ current' = current
              /\ current_name' = df[i].name
              /\ idx' = idx + 1
              /\ routeLog' = routeLog]_vars

\* a row of an unresolved stop, then a route of the same vehicle that starts
\* from the origin and is labelled with the unresolved stop's name, its
\* cumulative distance the segment's own
C5_Witness ==
    /\ Len(Emitted) = 2
    /\ Emitted[1].veh = Emitted[2].veh
    /\ Emitted[1].note = NoteAddress
    /\ Emitted[1].dist = Dash
    /\ Emitted[2].note = NoteOk
    /\ Emitted[2].from = Emitted[1].to
    /\ Emitted[2].cumKm = Emitted[2].dist
    /\ Len(routeLog) = 1
    /\ routeLog[1].from = origin_coords

\* the step of the loop body on a resolved stop whose route is None
RouteNoneStep ==
    /\ pc = "route"
    /\ pc' = "stop_loop"
    /\ route_result' = None

(* C6: a resolved stop whose route is None leaves one more row, with no
   segment distance or duration and the note 'route computation failed'; the
   cumulative totals stay as they were, and the current coordinate and label
   advance to the stop. *)
C6_RouteFailedFrame ==
    [][RouteNoneStep =>
          LET i   == group_df[idx]
              row == Emitted'[Len(Emitted')]
          IN  /\ Len(Emitted') = Len(Emitted) + 1
              /\ row.to = df[i].name
              /\ row.dist = Dash
              /\ row.mins = Dash
              /\ row.note = NoteRoute
              /\ row.cumKm = meters_to_km(cumulative_distance)
              /\ row.cumTime = format_duration(cumulative_duration)
              /\ cumulative_distance' = cumulative_distance
              /\ cumulative_duration' = cumulative_duration
              /\ group_distance' = group_distance
              /\ group_duration' = group_duration
              /\ current' = dest
              /\ current_name' = df[i].name
              /\ idx' = idx + 1]_vars

\* a failed route, then a successful one of the same vehicle that starts at
\* the stop whose route failed
C6_Witness ==
    /\ Len(Emitted) = 2
    /\ Emitted[1].veh = Emitted[2].veh
    /\ Emitted[1].note = NoteRoute
    /\ Emitted[1].dist = Dash
    /\ Emitted[2].note = NoteOk
    /\ Emitted[2].from = Emitted[1].to
    /\ Len(routeLog) = 2
    /\ routeLog[2].from = routeLog[1].to
    /\ routeLog[2].from # origin_coords

\* the input rows of vehicle v
InputRows(v) == {i \in 1..Len(df) : df[i].veh = v}

(* C7: a finished run has exactly one summary for each vehicle id of the
   input and none for any other, and the stop count of a summary is the
   number of input rows of its vehicle. *)
C7_OneSummaryPerVehicle ==
    Finished =>
        /\ \A v \in Vehicles :
              Cardinality({k \in 1..Len(saved[2]) : saved[2][k].veh = v})
                 = IF InputRows(v) = {} THEN 0 ELSE 1
        /\ \A k \in 1..Len(saved[2]) :
              saved[2][k].count = Cardinality(InputRows(saved[2][k].veh))

\* one vehicle with two stops, neither of which produced a segment
C7_Witness ==
    /\ Finished
    /\ Len(df) = 2
    /\ Len(saved[2]) = 1
    /\ saved[2][1].count = 2
    /\ saved[1][1].note = NoteAddress
    /\ saved[1][2].note = NoteRoute

\* the resolutions of the origin address so far
OriginResolutions == {k \in 1..Len(geoLog) : geoLog[k].target = 0}

\* without an origin coordinate nothing of the batch has been done
NothingComputed ==
    /\ \A k \in 1..Len(geoLog) : geoLog[k].target = 0
    /\ routeLog = <<>>
    /\ Emitted = <<>>
    /\ summary_results = <<>>
    /\ saved = None

(* C8, as claimed: once a resolution of the origin address has failed the
   run is over with the origin-unresolved outcome and nothing has been
   computed; the origin is resolved exactly once, before any stop. *)
C8_OriginFailureIsFatal ==
    /\ (\E k \in OriginResolutions : ~geoLog[k].ok) =>
          /\ pc = "done"
          /\ outcome = "origin_unresolved"
          /\ NothingComputed
    /\ pc \notin {"origin", "done"} => Cardinality(OriginResolutions) = 1
    /\ Cardinality(OriginResolutions) <= 1
    /\ \A k \in OriginResolutions : \A m \in 1..(k - 1) : geoLog[m].target = 0

(* C8, amended: as long as there is no origin coordinate no stop is
   resolved, no route probed and no row or summary produced, and every
   resolution of the origin precedes the first resolution of a stop. In
   app.py a failed resolution of the origin ends the run with the
   origin-unresolved outcome, and the origin is resolved exactly once per
   calculation. tms_excel_processor.py has no such outcome: get_origin_address
   asks again, and resolves again, until an address resolves. *)
C8_OriginFailureHalts ==
    /\ origin_coords = None => NothingComputed
    /\ \A k \in OriginResolutions : \A m \in 1..(k - 1) : geoLog[m].target = 0
    /\ pc \notin {"origin", "done"} =>
          /\ origin_coords # None
          /\ geoLog[Latest(OriginResolutions)].ok
    /\ prog = "app" =>
          /\ Cardinality(OriginResolutions) <= 1
          /\ pc # "origin" /\ outcome \notin {"origin_empty", "no_customers"}
                => Cardinality(OriginResolutions) = 1
          /\ (\E k \in OriginResolutions : ~geoLog[k].ok) =>
                /\ pc = "done"
                /\ outcome = "origin_unresolved"
                /\ origin_coords = None
    /\ prog = "cli" =>
          /\ outcome # "origin_unresolved"
          /\ \A k \in OriginResolutions :
                ~geoLog[k].ok => k < Len(geoLog) \/ pc = "origin"
          /\ \A k \in OriginResolutions : geoLog[k].ok => k = Latest(OriginResolutions)

\* app.py with customers loaded: the origin did not resolve and the
\* calculation is over
C8_Witness ==
    /\ prog = "app"
    /\ Len(df) = 2
    /\ pc = "done"
    /\ outcome = "origin_unresolved"
    /\ Len(geoLog) = 1
    /\ ~geoLog[1].ok

\* the resolutions of input row i, and its route computations
ResolutionsOf(i) == {k \in 1..Len(geoLog) : geoLog[k].target = i}

RoutesOf(i) == {k \in 1..Len(routeLog) : routeLog[k].row = i}

(* C9: in a finished run the address of every stop has been looked up, once,
   whatever happened at the stops before it, and a route has been computed
   for exactly the stops whose address resolved; while a group is processed
   this holds for the stops already passed. *)
C9_EveryStopAttempted ==
    /\ Finished =>
          \A i \in 1..Len(df) :
             /\ Cardinality(ResolutionsOf(i)) = 1
             /\ \A k \in ResolutionsOf(i) :
                   Cardinality(RoutesOf(i)) = IF geoLog[k].ok THEN 1 ELSE 0
    /\ pc = "stop_loop" =>
          \A j \in 1..Len(group_df) :
             Cardinality(ResolutionsOf(group_df[j])) = IF j < idx THEN 1 ELSE 0

\* the first stop of a vehicle produced no segment; its second stop was
\* resolved and routed all the same
C9_Witness ==
    /\ Finished
    /\ Len(df) = 2
    /\ df[1].veh = df[2].veh
    /\ saved[1][1].note # NoteOk
    /\ saved[1][2].note = NoteOk
    /\ Len(geoLog) = 3
    /\ geoLog[3].ok
    /\ Len(routeLog) >= 1

\* what _try_route made of the first response of the script
FirstReturn == TryRoute(rScript[0])

(* C10: when the first probe returns nothing (no route candidate, or a
   transport or parse error) or a non-zero result code other than 104, 105,
   106, calculate_route returns None after that one probe; more than one
   probe is issued only after 104, 105 or 106 on the first. *)
C10_OnlyUnreachableRetries ==
    rCall # None =>
        /\ (FirstReturn = None \/ FirstReturn[3] \notin {0, 104, 105, 106}) =>
              /\ rCall.result = None
              /\ Len(rCall.probes) = 1
        /\ Len(rCall.probes) > 1 =>
              /\ FirstReturn # None
              /\ FirstReturn[3] \in {104, 105, 106}

\* result code 1 on the first probe: None after one probe, although the
\* provider would have answered the first retry probe with a route
C10_Witness ==
    /\ rCall # None
    /\ FirstReturn # None
    /\ FirstReturn[3] = 1
    /\ ProbeSucceeded(TryRoute(rScript[1]))
    /\ rCall.result = None
    /\ Len(rCall.probes) = 1

(* C11: a second run on the same stop list and origin, with every request
   answered as in the first run, saves the same detail rows and the same
   vehicle summaries as the first: nothing of the first run is left in the
   second. *)
C11_SameInputSameOutput ==
    (first # None /\ Finished) => saved = first.saved

\* the second run of a list of two stops is over: one stop had not resolved,
\* the other was routed, and the same rows were saved again
C11_Witness ==
    /\ first # None
    /\ Finished
    /\ Len(df) = 2
    /\ Len(saved[1]) = 2
    /\ \E j \in 1..2 : saved[1][j].note = NoteAddress
    /\ \E j \in 1..2 : saved[1][j].note = NoteOk
    /\ Len(first.geo) = 2
    /\ Len(geoLog) = 3

\* what is known of vehicle v alone: the order its stops were taken in, and
\* for each of them whether its address resolved and what its route returned
OwnOrder(v) == SelectSeq(geoLog, LAMBDA e : e.target # 0 /\ df[e.target].veh = v)

OwnRoute(i) == routeLog[CHOOSE k \in RoutesOf(i) : TRUE].result

\* the rows of an itinerary that is computed from the origin with totals of
\* zero, from the stops and outcomes of the one vehicle only
RECURSIVE ItineraryFrom(_, _, _, _, _, _)
ItineraryFrom(v, ord, k, label, meters, seconds) ==
    IF k > Len(ord) THEN <<>>
    ELSE LET i  == ord[k].target
             rr == IF ord[k].ok THEN OwnRoute(i) ELSE None
             m2 == IF rr # None THEN meters + rr[1] ELSE meters
             s2 == IF rr # None THEN seconds + rr[2] ELSE seconds
             row == [veh |-> v, seq |-> df[i].seq, from |-> label,
                     to |-> df[i].name,
                     dist |-> IF rr # None THEN meters_to_km(rr[1]) ELSE Dash,
                     mins |-> IF rr # None THEN seconds_to_minutes(rr[2]) ELSE Dash,
                     cumKm |-> meters_to_km(m2),
                     cumTime |-> format_duration(s2),
                     note |-> IF ~ord[k].ok THEN NoteAddress
                              ELSE IF rr = None THEN NoteRoute ELSE NoteOk]
         IN  <<row>> \o ItineraryFrom(v, ord, k + 1, df[i].name, m2, s2)

\* the metres (c = 1) or seconds (c = 2) of the routes of vehicle v
RECURSIVE OwnTotal(_, _, _)
OwnTotal(v, k, c) ==
    IF k = 0 THEN 0
    ELSE OwnTotal(v, k - 1, c)
         + (IF df[routeLog[k].row].veh = v /\ routeLog[k].result # None
            THEN routeLog[k].result[c] ELSE 0)

(* C12: in a finished run the rows of every vehicle are those of an
   itinerary computed from the origin coordinate with cumulative totals of
   zero out of the vehicle's own stops and their outcomes, and its summary
   holds its own stop count and totals: nothing of another vehicle enters. *)
C12_VehiclesIndependent ==
    Finished =>
        \A v \in Vehicles :
            /\ RowsOfVehicle(saved[1], v)
                  = ItineraryFrom(v, OwnOrder(v), 1, OriginLabel, 0, 0)
            /\ \A k \in 1..Len(routeLog) :
                  (RoutedVehicle(k) = v /\ EarlierRoutes(k) = {})
                     => routeLog[k].from = origin_coords
            /\ \A k \in 1..Len(saved[2]) :
                  saved[2][k].veh = v =>
                     saved[2][k] = [veh |-> v, count |-> Len(OwnOrder(v)),
                                    totalKm |-> meters_to_km(OwnTotal(v, Len(routeLog), 1)),
                                    totalTime |-> format_duration(OwnTotal(v, Len(routeLog), 2))]

\* two vehicles of one stop each: the first was routed over 120 km, the
\* second starts at the origin and its cumulative distance is its own segment
C12_Witness ==
    /\ Finished
    /\ Len(df) = 2
    /\ df[1].veh # df[2].veh
    /\ saved[1][1].note = NoteOk
    /\ saved[1][1].cumKm = <<1200>>
    /\ saved[1][2].note = NoteOk
    /\ saved[1][2].from = OriginLabel
    /\ saved[1][2].cumKm = <<1>>
    /\ routeLog[2].from = origin_coords

\* the file lacks at least one required column
Malformed == MissingColumns(columns) # <<>>

\* the required columns that the file lacks
Lacking == {required_columns[j] : j \in 1..Len(required_columns)} \ columns

\* the error names exactly the lacking columns, each once, in the order of
\* the required list
NamesTheLacking ==
    /\ {missing_columns[j] : j \in 1..Len(missing_columns)} = Lacking
    /\ Len(missing_columns) = Cardinality(Lacking)
    /\ \A a, b \in 1..Len(missing_columns) :
          a < b => \E x, y \in 1..Len(required_columns) :
                      /\ x < y
                      /\ required_columns[x] = missing_columns[a]
                      /\ required_columns[y] = missing_columns[b]

\* no stop was geocoded, no route probed, no row or summary produced
NoStopWork ==
    /\ \A k \in 1..Len(geoLog) : geoLog[k].target = 0
    /\ routeLog = <<>>
    /\ Emitted = <<>>
    /\ summary_results = <<>>
    /\ saved = None
    /\ pc \notin {"group_loop", "stop_loop", "route"}

(* C13, as claimed: a file that lacks required columns is rejected before
   any network call, neither geocoding nor routing, with an error that names
   exactly the lacking columns, and nothing is produced. *)
C13_RejectedBeforeAnyCall ==
    Malformed =>
        /\ geoLog = <<>>
        /\ NoStopWork
        /\ missing_columns # None => NamesTheLacking
        /\ pc = "done" => missing_columns # None

(* C13, amended: a file that lacks required columns is rejected with an
   error naming exactly the lacking columns before any stop is geocoded and
   any route probed, and no row or summary is produced. In app.py no network
   call at all precedes the rejection. In tms_excel_processor.py the origin
   address has been asked for and geocoded, successfully, before the file is
   read, so the rejection follows at least one geocoding call. *)
C13_RejectedBeforeStopWork ==
    /\ Malformed =>
          /\ NoStopWork
          /\ missing_columns # None => NamesTheLacking
          /\ pc = "done" => missing_columns # None
          /\ prog = "app" => geoLog = <<>> /\ (pc # "upload" => missing_columns # None)
          /\ (prog = "cli" /\ missing_columns # None) =>
                /\ outcome = "missing_columns"
                /\ geoLog # <<>>
                /\ geoLog[Len(geoLog)].ok
    /\ ~Malformed => missing_columns = None

\* a file without the vehicle and the address column was read by
\* tms_excel_processor.py after one failed and one successful geocoding of
\* the origin, and rejected
C13_Witness ==
    /\ prog = "cli"
    /\ Len(df) = 2
    /\ pc = "done"
    /\ outcome = "missing_columns"
    /\ missing_columns = <<"veh", "addr">>
    /\ Len(geoLog) = 2
    /\ ~geoLog[1].ok

\* the lookup found no document
NoCandidate(resp) == resp.kind = "empty"

\* the lookup did not come back with a readable answer: network error,
\* timeout, non-2xx status, payload that cannot be read
TransportError(resp) == resp.kind \in {"error", "malformed"}

(* C14, as claimed: what validate_address reports when both lookups found
   no candidate differs from what it reports when a lookup failed by a
   transport error. *)
C14_FailuresDistinct ==
    (gCall # None /\ NoCandidate(gCall.structured) /\ NoCandidate(gCall.keyword)) =>
        \A s, kw \in GeoFailures :
            (TransportError(s) \/ TransportError(kw)) =>
                validate_address(s, kw) # gCall.result

\* both lookups found no candidate and validate_address returned None
C14_Witness ==
    /\ gCall # None
    /\ NoCandidate(gCall.structured)
    /\ NoCandidate(gCall.keyword)
    /\ gCall.result = None

\* the probe that calculate_route issued last
LastProbe == rCall.probes[Len(rCall.probes)]

\* a probe answered with result code 0 and distance 0
ZeroDistance(ret) == ret # None /\ ret[3] = 0 /\ ret[1] = 0

(* C15: every result of calculate_route other than None has a distance
   above 0: it is the distance and duration of the last probe, which was
   answered with result code 0. A probe answered with code 0 and distance 0,
   the first or a perturbed one, is never what is returned. *)
C15_PositiveDistance ==
    rCall # None =>
        /\ rCall.result # None =>
              /\ rCall.result[1] > 0
              /\ LastProbe.ret # None
              /\ LastProbe.ret[3] = 0
              /\ rCall.result = <<LastProbe.ret[1], LastProbe.ret[2]>>
        /\ ZeroDistance(LastProbe.ret) => rCall.result = None

\* the first retry probe was answered with code 0 and distance 0; the call
\* went on and returned the route of a later probe
C15_Witness ==
    /\ rCall # None
    /\ FirstUnreachable(rScript)
    /\ ZeroDistance(rCall.probes[2].ret)
    /\ Len(rCall.probes) > 3
    /\ rCall.result = <<50, 30>>

(* C16, as claimed: the stops of a group are processed in ascending order of
   their sequence values, and stops with equal sequence values in the order
   of the input. *)
C16_StableSort ==
    pc \in {"stop_loop", "route"} =>
        \A a, b \in 1..Len(group_df) :
            a < b =>
               /\ df[group_df[a]].seq <= df[group_df[b]].seq
               /\ df[group_df[a]].seq = df[group_df[b]].seq
                     => group_df[a] < group_df[b]

\* two stops of one vehicle with the same sequence value, taken in the
\* reverse of their input order
C16_Witness ==
    /\ pc = "stop_loop"
    /\ group_df = <<2, 1>>
    /\ df[1].seq = df[2].seq

(* C17: when the first probe is answered with result code 0 and distance 0
   calculate_route returns None after that one probe, without a retry; a
   perturbed probe answered with code 0 and distance 0 is passed over, and
   the next variant is probed unless it was the last one. *)
C17_ZeroDistanceIsFailure ==
    rCall # None =>
        /\ ZeroDistance(FirstReturn) =>
              /\ rCall.result = None
              /\ Len(rCall.probes) = 1
        /\ \A j \in 2..Len(rCall.probes) :
              ZeroDistance(rCall.probes[j].ret) =>
                 \/ j < Len(rCall.probes)
                 \/ j = RetryProbes + 1 /\ rCall.result = None

\* code 0 with distance 0 on the first probe: None after one probe, although
\* the provider would have answered the first retry probe with a route
C17_Witness ==
    /\ rCall # None
    /\ ZeroDistance(FirstReturn)
    /\ ProbeSucceeded(TryRoute(rScript[1]))
    /\ rCall.result = None
    /\ Len(rCall.probes) = 1

\* the number of probes of a call that goes through the whole list
AllProbes == 1 + 3 * Len(offsets)

(* C18: calculate_route ends after at most 1 + 3 * |offsets| probes. Once
   the retry loop is entered and no probe succeeds it returns None after
   exactly that many, 37 with the list of 12; a perturbed probe that does not
   succeed, whatever it came back with, is followed by the next one until
   the list is at its end. *)
C18_RetryBudget ==
    rCall # None =>
        /\ Len(rCall.probes) \in 1..AllProbes
        /\ (FirstUnreachable(rScript) /\ FirstHitFrom(rScript, 1) = 0) =>
              /\ rCall.result = None
              /\ Len(rCall.probes) = AllProbes
              /\ Len(rCall.probes) = 37
        /\ \A j \in 2..Len(rCall.probes) :
              ~ProbeSucceeded(rCall.probes[j].ret) =>
                 \/ j < Len(rCall.probes)
                 \/ j = AllProbes /\ rCall.result = None
        /\ Len(rCall.probes) = AllProbes =>
              \A j \in 1..(AllProbes - 1) : ~ProbeSucceeded(rCall.probes[j].ret)

\* all 37 probes were issued and none succeeded; among the perturbed ones
\* were a transport error, an empty candidate list and a code outside
\* 104..106
C18_Witness ==
    /\ rCall # None
    /\ rCall.result = None
    /\ Len(rCall.probes) = 37
    /\ \E j \in 2..37 : rCall.probes[j].ret = None /\ rScript[j - 1].kind = "error"
    /\ \E j \in 2..37 : rCall.probes[j].ret = None /\ rScript[j - 1].kind = "noroutes"
    /\ \E j \in 2..37 : rCall.probes[j].ret # None /\ rCall.probes[j].ret[3] = 1

\* the coordinates one offset of the list away from p
OneOffsetFrom(p) == {Shift(p, offsets[k]) : k \in 1..Len(offsets)}

\* the larger distance of p from q on an axis, in units of 0.0001 degree
AxisDistance(p, q) ==
    LET dx == IF p[1] >= q[1] THEN p[1] - q[1] ELSE q[1] - p[1]
        dy == IF p[2] >= q[2] THEN p[2] - q[2] ELSE q[2] - p[2]
    IN  IF dx >= dy THEN dx ELSE dy

(* C19: in every probe of the retry loop each endpoint is the original
   coordinate or the original coordinate moved by one offset of the list,
   never by more than one, so that no endpoint is further than 0.001 degree
   from the original on any axis. *)
C19_OffsetsNotAccumulated ==
    rCall # None =>
        \A j \in 2..Len(rCall.probes) :
            /\ rCall.probes[j].from \in {rOrigin} \cup OneOffsetFrom(rOrigin)
            /\ rCall.probes[j].to \in {rDest} \cup OneOffsetFrom(rDest)
            /\ rCall.probes[j].from # rOrigin \/ rCall.probes[j].to # rDest
            /\ AxisDistance(rCall.probes[j].from, rOrigin) <= 10
            /\ AxisDistance(rCall.probes[j].to, rDest) <= 10

\* the last probe of the list: both endpoints 0.001 degree south of the
\* original pair
C19_Witness ==
    /\ rCall # None
    /\ Len(rCall.probes) = 37
    /\ rCall.probes[37].from = <<rOrigin[1], rOrigin[2] - 10>>
    /\ rCall.probes[37].to = <<rDest[1], rDest[2] - 10>>
    /\ rCall.probes[36].from = rOrigin

\* the kinds of offset, in units of 0.0001 degree: a step of 0.0005 degree
\* along one axis, the same on both axes, a step of 0.001 degree along one
\* axis
SmallCardinal == {<<5, 0>>, <<-5, 0>>, <<0, 5>>, <<0, -5>>}
Diagonal == {<<5, 5>>, <<-5, 5>>, <<-5, -5>>, <<5, -5>>}
LargeCardinal == {<<10, 0>>, <<-10, 0>>, <<0, 10>>, <<0, -10>>}

\* the offset behind retry variant (a) number k of a call that went through
\* the whole list: how far its origin was moved
AppliedOffset(k) ==
    <<rCall.probes[3 * k - 1].from[1] - rOrigin[1],
      rCall.probes[3 * k - 1].from[2] - rOrigin[2]>>

\* the positions of the list from the ninth on
AfterDiagonals == {k \in 1..Len(offsets) : k > 8}

\* the list begins with the four cardinal and then the four diagonal offsets
CardinalsThenDiagonals ==
    /\ Len(offsets) >= 8
    /\ {offsets[k] : k \in 1..4} = SmallCardinal
    /\ {offsets[k] : k \in 5..8} = Diagonal

(* C20, as claimed: the list is the four cardinal offsets, the four diagonal
   offsets and two larger cardinal steps, in that order, so that a call in
   which no probe succeeds goes through ten offsets. *)
C20_TwoLargerSteps ==
    (rCall # None /\ FirstUnreachable(rScript) /\ FirstHitFrom(rScript, 1) = 0) =>
        /\ CardinalsThenDiagonals
        /\ Cardinality(AfterDiagonals) = 2
        /\ \A k \in AfterDiagonals : offsets[k] \in LargeCardinal
        /\ Len(rCall.probes) = 1 + 3 * (4 + 4 + 2)

(* C20, amended: the list is the four cardinal offsets of 0.0005 degree,
   the four diagonal offsets of 0.0005 degree and the four cardinal offsets
   of 0.001 degree, in that order, twelve in all, and a call that goes
   through the whole list moves the origin by them in that order. *)
C20_FourLargerSteps ==
    /\ CardinalsThenDiagonals
    /\ Cardinality(AfterDiagonals) = 4
    /\ {offsets[k] : k \in AfterDiagonals} = LargeCardinal
    /\ (rCall # None /\ Len(rCall.probes) = AllProbes) =>
          /\ {AppliedOffset(k) : k \in 1..4} = SmallCardinal
          /\ {AppliedOffset(k) : k \in 5..8} = Diagonal
          /\ {AppliedOffset(k) : k \in AfterDiagonals} = LargeCardinal
          /\ \A k \in 1..Len(offsets) : AppliedOffset(k) = offsets[k]

\* a call went through the whole list: east first, north-east fifth, east by
\* 0.001 degree ninth, south by 0.001 degree twelfth
C20_Witness ==
    /\ rCall # None
    /\ Len(rCall.probes) = AllProbes
    /\ AppliedOffset(1) = <<5, 0>>
    /\ AppliedOffset(5) = <<5, 5>>
    /\ AppliedOffset(9) = <<10, 0>>
    /\ AppliedOffset(12) = <<0, -10>>

\* a lookup produced no result: it found no document, failed in transport,
\* or its first document could not be read
NoResult(resp) == resp.kind \in {"empty", "error", "malformed"}

(* C21: validate_address makes the address lookup, and the keyword lookup
   if and only if the address lookup produced no result, both with the text
   it was called with; it returns None if and only if both lookups produced
   no result, and otherwise the coordinate of the first lookup that produced
   one. Errors of a lookup end inside the call. *)
C21_KeywordOnlyAsFallback ==
    gCall # None =>
        /\ gCall.calls[1] = [endpoint |-> "address", query |-> gCall.address]
        /\ Len(gCall.calls) = IF NoResult(gCall.structured) THEN 2 ELSE 1
        /\ Len(gCall.calls) = 2 =>
              gCall.calls[2] = [endpoint |-> "keyword", query |-> gCall.address]
        /\ gCall.result = None
              <=> (NoResult(gCall.structured) /\ NoResult(gCall.keyword))
        /\ ~NoResult(gCall.structured) => gCall.result = gCall.structured.pt
        /\ (NoResult(gCall.structured) /\ ~NoResult(gCall.keyword))
              => gCall.result = gCall.keyword.pt

\* the first document of the address lookup had no readable coordinate; the
\* keyword lookup was made with the same text and gave the result
C21_Witness ==
    /\ gCall # None
    /\ gCall.structured.kind = "malformed"
    /\ gCall.keyword.kind = "ok"
    /\ Len(gCall.calls) = 2
    /\ gCall.calls[2].query = gCall.calls[1].query
    /\ gCall.result = gCall.keyword.pt

\* the document whose coordinate validate_address returned
FromStructured == gCall # None /\ gCall.structured.kind = "ok"

FromKeyword ==
    gCall # None /\ NoResult(gCall.structured) /\ gCall.keyword.kind = "ok"

\* the display address of a keyword document: road_address_name when not
\* empty, else address_name, else the text asked for
KeywordDisplayOk ==
    FromKeyword =>
        gCall.formatted =
            IF gCall.keyword.roadName # None THEN gCall.keyword.roadName
            ELSE IF gCall.keyword.addr # None THEN gCall.keyword.addr
            ELSE gCall.address

(* C22, as claimed: the display address of a document of the address lookup
   is its road-address form if it has one, otherwise its general address
   form, otherwise the text asked for; that of a keyword document is its
   road-address name if not empty, otherwise its general address, otherwise
   the text asked for. *)
C22_DisplayFallbackChain ==
    /\ FromStructured =>
          gCall.formatted =
              IF gCall.structured.roadName # None THEN gCall.structured.roadName
              ELSE IF gCall.structured.addr # None THEN gCall.structured.addr
              ELSE gCall.address
    /\ KeywordDisplayOk

(* C22, amended: for a document of the address lookup that carries a road
   address the display address is the road address's name, or the text asked
   for when the road address has no name: the general address form is not
   looked at. Without a road address it is the general address form, or the
   text asked for when that is missing. For a keyword document it is the
   road-address name if not empty, otherwise the general address, otherwise
   the text asked for. *)
C22_DisplayByRoadAddress ==
    /\ (FromStructured /\ gCall.structured.road) =>
          gCall.formatted = IF gCall.structured.roadName # None
                            THEN gCall.structured.roadName ELSE gCall.address
    /\ (FromStructured /\ ~gCall.structured.road) =>
          gCall.formatted = IF gCall.structured.addr # None
                            THEN gCall.structured.addr ELSE gCall.address
    /\ KeywordDisplayOk
    /\ gCall # None => (gCall.formatted = None <=> gCall.result = None)

\* a document with a road address that has no name and with a general
\* address form: the display address is the text asked for
C22_Witness ==
    /\ FromStructured
    /\ gCall.structured.road
    /\ gCall.structured.roadName = None
    /\ gCall.structured.addr = GeneralForm
    /\ gCall.formatted = gCall.address

\* the place of a vehicle id in the ascending order of the ids
Rank(v) == CHOOSE j \in 1..Len(VehicleOrder) : VehicleOrder[j] = v

\* the vehicles of a sequence of rows, each once, in order of appearance
RECURSIVE VehiclesInOrder(_)
VehiclesInOrder(rows) ==
    IF rows = <<>> THEN <<>>
    ELSE LET n    == Len(rows)
             head == VehiclesInOrder([i \in 1..(n - 1) |-> rows[i]])
         IN  IF \E j \in 1..Len(head) : head[j] = rows[n].veh
             THEN head ELSE Append(head, rows[n].veh)

(* C23: the groups are taken in ascending order of the vehicle id; the
   detail rows come in that order, the rows of one vehicle next to each
   other, and the summaries come in the same vehicle order as the rows. *)
C23_GroupOrder ==
    /\ \A a, b \in 1..Len(groups) : a < b => Rank(groups[a]) < Rank(groups[b])
    /\ \A a, b \in 1..Len(Emitted) :
          a < b => Rank(Emitted[a].veh) <= Rank(Emitted[b].veh)
    /\ \A a, b, c \in 1..Len(Emitted) :
          (a < b /\ b < c /\ Emitted[a].veh = Emitted[c].veh)
             => Emitted[b].veh = Emitted[a].veh
    /\ \A a, b \in 1..Len(summary_results) :
          a < b => Rank(summary_results[a].veh) < Rank(summary_results[b].veh)
    /\ Finished =>
          [k \in 1..Len(saved[2]) |-> saved[2][k].veh] = VehiclesInOrder(saved[1])

\* the second vehicle's stop came first in the input; the first vehicle's
\* row and summary come first in the output
C23_Witness ==
    /\ Finished
    /\ Len(df) = 2
    /\ df[1].veh = "V2"
    /\ df[2].veh = "V1"
    /\ saved[1][1].veh = "V1"
    /\ saved[1][2].veh = "V2"
    /\ saved[2][1].veh = "V1"
    /\ saved[2][2].veh = "V2"

\* the last detail row of vehicle v
LastRowOf(v) ==
    LET rs == RowsOfVehicle(Emitted, v) IN rs[Len(rs)]

(* C24: the total distance and total duration of every vehicle summary are
   the sums of the vehicle's successful segments, shown as the cumulative
   values of the vehicle's last row are shown; in app.py group_distance and
   group_duration equal cumulative_distance and cumulative_duration at all
   times. *)
C24_SummaryTotals ==
    /\ \A k \in 1..Len(summary_results) :
          LET v == summary_results[k].veh
          IN  /\ summary_results[k].totalKm
                    = meters_to_km(SumBehind(Emitted, raw, v, Len(Emitted), 1))
              /\ summary_results[k].totalTime
                    = format_duration(SumBehind(Emitted, raw, v, Len(Emitted), 2))
              /\ summary_results[k].totalKm = LastRowOf(v).cumKm
              /\ summary_results[k].totalTime = LastRowOf(v).cumTime
    /\ prog = "app" =>
          /\ group_distance = cumulative_distance
          /\ group_duration = cumulative_duration

\* app.py: a vehicle with two routed stops and its summary of 120.0 km
C24_Witness ==
    /\ prog = "app"
    /\ Len(summary_results) = 1
    /\ Len(Emitted) = 2
    /\ raw[1] # None
    /\ raw[2] # None
    /\ group_distance = 120050
    /\ summary_results[1].totalKm = <<1200>>
    /\ summary_results[1].totalTime = <<1, 0>>
    /\ Emitted[2].cumKm = <<1200>>

(* C25: the note of every emitted row is empty, address-unresolved or
   route-computation-failed, and it is empty exactly when the row carries a
   segment distance and a segment duration; the first row of a vehicle
   leaves from the origin label and every later row leaves from the
   destination label of the row before it. *)
C25_NotesAndLabels ==
    /\ \A k \in 1..Len(Emitted) :
          /\ Emitted[k].note \in {NoteOk, NoteAddress, NoteRoute}
          /\ Emitted[k].note = NoteOk
                <=> (Emitted[k].dist # Dash /\ Emitted[k].mins # Dash)
          /\ Emitted[k].note # NoteOk
                => (Emitted[k].dist = Dash /\ Emitted[k].mins = Dash)
          /\ Emitted[k].note = NoteOk <=> raw[k] # None
    /\ \A v \in Vehicles :
          LET rs == RowsOfVehicle(Emitted, v)
          IN  /\ rs # <<>> => rs[1].from = OriginLabel
              /\ \A k \in 1..(Len(rs) - 1) : rs[k + 1].from = rs[k].to

\* a vehicle whose first stop did not resolve and whose second stop was routed
C25_Witness ==
    /\ Len(Emitted) = 2
    /\ Emitted[1].veh = Emitted[2].veh
    /\ Emitted[1].note = NoteAddress
    /\ Emitted[1].from = OriginLabel
    /\ Emitted[2].note = NoteOk
    /\ Emitted[2].from = Emitted[1].to
    /\ Emitted[2].from # Emitted[2].to
    /\ Emitted[2].dist # Dash

\* the stops the loop has taken up so far, in the order it took them
StopsHandled == SelectSeq(geoLog, LAMBDA e : e.target # 0)

\* the route requests that succeeded, in the order they were made
Successes == SelectSeq(routeLog, LAMBDA e : e.result # None)

\* stop i was taken up and has no segment: its address did not resolve or
\* its route failed
StopFailed(i) ==
    \/ \E k \in 1..Len(geoLog) : geoLog[k].target = i /\ ~geoLog[k].ok
    \/ \E k \in 1..Len(routeLog) : routeLog[k].row = i /\ routeLog[k].result = None

\* the name of the stop taken up just before stop i in i's vehicle, the
\* origin label when i is the vehicle's first stop
LabelBefore(i) ==
    LET p == CHOOSE q \in 1..Len(StopsHandled) : StopsHandled[q].target = i
    IN  IF p = 1 \/ df[StopsHandled[p - 1].target].veh # df[i].veh
        THEN OriginLabel
        ELSE df[StopsHandled[p - 1].target].name

(* C26, as first stated: the manual tab emits a row only for a stop that
   resolved and was routed, and a failed stop leaves no trace in the output:
   no row names it, neither as where a segment starts nor as where it ends. *)
C26_FailedStopsLeaveNoTrace ==
    prog = "manual" =>
        \A k \in 1..Len(all_results) : \A i \in 1..Len(df) :
            StopFailed(i) =>
                /\ all_results[k].from # df[i].name
                /\ all_results[k].to # df[i].name

(* C26: the manual tab emits exactly one row per successful segment, in
   order, so fewer rows than stops as soon as a stop fails; a failed stop
   gets no row of its own, but the row after it still leaves from its name;
   the tables are drawn only when there is at least one row. *)
C26_RowsOnlyForSuccess ==
    prog = "manual" =>
        /\ Len(all_results) = Len(Successes)
        /\ \A k \in 1..Len(all_results) :
              LET e == Successes[k]
              IN  all_results[k] =
                      [veh |-> df[e.row].veh, from |-> LabelBefore(e.row),
                       to |-> df[e.row].name,
                       dist |-> format_distance(e.result[1]),
                       time |-> format_duration(e.result[2])]
        /\ \A i \in 1..Len(df) :
              StopFailed(i) =>
                  \A k \in 1..Len(all_results) : all_results[k].to # df[i].name
        /\ pc \in {"stop_loop", "group_loop", "done"} =>
              Len(all_results)
                  = Len(StopsHandled)
                      - Cardinality({i \in 1..Len(df) : StopFailed(i)})
        /\ Finished =>
              /\ Len(StopsHandled) = Len(df)
              /\ Len(summary_results) = Len(groups)
              /\ saved = IF all_results = <<>> THEN None
                         ELSE <<all_results, summary_results>>

\* two stops of one vehicle: the first did not resolve, the second was
\* routed and its row leaves from the name of the first
C26_Witness ==
    /\ prog = "manual"
    /\ Finished
    /\ Len(df) = 2
    /\ Len(StopsHandled) = 2
    /\ ~StopsHandled[1].ok
    /\ Len(all_results) = 1
    /\ all_results[1].from = df[StopsHandled[1].target].name
    /\ all_results[1].to = df[StopsHandled[2].target].name
    /\ saved = <<all_results, summary_results>>

\* customer i of main's list was geocoded and did not resolve
Dropped(i) == \E k \in 1..Len(geoLog) : geoLog[k].target = i /\ ~geoLog[k].ok

(* C27: in tms_distance_calculator.main a customer whose address does not
   resolve is left out of validated_customers, so it has no segment entry;
   every segment is routed and labelled from the resolved customer before
   it (the origin for the first), never from a dropped one; when no
   customer resolves main returns without a route request. *)
C27_UnresolvedDropped ==
    prog = "calc" =>
        /\ \A k \in 1..Len(validated_customers) :
              /\ ~Dropped(validated_customers[k].row)
              /\ \E j \in 1..Len(geoLog) :
                    geoLog[j].target = validated_customers[k].row /\ geoLog[j].ok
        /\ pc \in {"route", "done"} =>
              /\ Len(validated_customers)
                    = Len(df) - Cardinality({i \in 1..Len(df) : Dropped(i)})
              /\ \A k \in 1..(Len(validated_customers) - 1) :
                    df[validated_customers[k].row].seq
                        <= df[validated_customers[k + 1].row].seq
        /\ Len(route_results) = Len(routeLog)
        /\ \A k \in 1..Len(route_results) :
              /\ routeLog[k].row = validated_customers[k].row
              /\ ~Dropped(routeLog[k].row)
              /\ route_results[k].to = <<df[validated_customers[k].row].name>>
              /\ routeLog[k].to = validated_customers[k].pt
              /\ IF k = 1
                 THEN /\ route_results[k].from = ShortName(origin_name)
                      /\ routeLog[k].from = origin_coords
                 ELSE /\ route_results[k].from
                            = <<df[validated_customers[k - 1].row].name>>
                      /\ routeLog[k].from = validated_customers[k - 1].pt
              /\ \A i \in 1..Len(df) :
                    Dropped(i) =>
                        /\ route_results[k].from # <<df[i].name>>
                        /\ route_results[k].to # <<df[i].name>>
        /\ (pc = "done" /\ outcome = "ok") =>
              /\ validated_customers # <<>>
              /\ Len(route_results) = Len(validated_customers)
        /\ (pc = "done" /\ outcome = "no_valid_customers") =>
              /\ \A i \in 1..Len(df) : Dropped(i)
              /\ routeLog = <<>>
              /\ route_results = <<>>
        /\ (pc = "done" /\ \A i \in 1..Len(df) : Dropped(i)) =>
              outcome = "no_valid_customers"

\* the second customer was dropped: the second segment goes from the first
\* customer to the third
C27_Witness ==
    /\ prog = "calc"
    /\ pc = "done"
    /\ outcome = "ok"
    /\ Dropped(2)
    /\ ~Dropped(1)
    /\ ~Dropped(3)
    /\ Len(route_results) < Len(df)
    /\ route_results[2].from = <<df[1].name>>
    /\ route_results[2].to = <<df[3].name>>
    /\ routeLog[2].from = validated_customers[1].pt
    /\ ~route_results[2].error

\* the ways a calculation attempt of app.py fails
FailedAttempts == {"origin_empty", "no_customers", "origin_unresolved"}

(* C28: an attempt of app.py that fails (origin empty, no customers, origin
   unresolved) leaves st.session_state.results and .summary as they were;
   they change only when a calculation completes, to that calculation's rows
   and summaries, so what is displayed is always the output of the latest
   calculation that completed. *)
C28_FailedAttemptKeepsResults ==
    [][/\ (pc = "origin" /\ pc' = "done") =>
              (outcome' \in FailedAttempts /\ saved' = saved)
       /\ outcome' \in FailedAttempts => saved' = saved
       /\ saved' # saved =>
              /\ pc = "group_loop"
              /\ outcome' = "ok"
              /\ saved' = <<all_results, summary_results>>
              /\ all_results # <<>>]_vars

\* a later attempt failed for want of customers and the results of the
\* earlier calculation are still stored
C28_Witness ==
    /\ prog = "app"
    /\ runs > 0
    /\ pc = "done"
    /\ outcome = "no_customers"
    /\ df = <<>>
    /\ saved # None
    /\ Len(saved[1]) = 2
    /\ all_results = <<>>

\* the sheet has a row whose sequence cannot be converted
HasGap == \E i \in 1..Len(df) : df[i].seq = NaN

(* C29: when processing raises at a stop in tms_excel_processor.main the run
   is abandoned: no result file is written, the rows computed for earlier
   stops and vehicles reach no output, nothing more is geocoded or routed,
   and the program is back at the menu prompt. *)
C29_RaiseAbandonsRun ==
    [][/\ outcome' = "error" =>
              /\ pc' = "done"
              /\ saved' = None
              /\ results' = <<>>
              /\ HasGap
       /\ outcome = "error" => UNCHANGED vars
       /\ (pc # "done" /\ pc' = "done") => (outcome' = "error" <=> HasGap)
       /\ saved' # saved => (~HasGap /\ outcome' = "ok")]_vars

\* the first vehicle was processed and summarised, the only stop of the
\* second raised: the rows of the first vehicle were never written
C29_Witness ==
    /\ prog = "cli"
    /\ pc = "done"
    /\ outcome = "error"
    /\ Len(all_results) = 1
    /\ Len(summary_results) = 1
    /\ gi = 2
    /\ saved = None
    /\ Len(routeLog) = 1
    /\ routeLog[1].result # None

(* C30, as stated: no run of the app.py script refers to a tab name that was
   not assigned; under the distance calculator menu tab1, tab2 and tab3 are
   assigned when the tab2 and tab3 blocks run, and under the update history
   menu the run gets past the tab blocks to the history list and the footer. *)
C30_TabsAssigned ==
    /\ raised # "NameError"
    /\ (menu = "distance calculator" /\ pc \in {"tab2", "footer"}) =>
          {"tab1", "tab2", "tab3"} \subseteq tabs
    /\ (menu = "update history" /\ pc \in {"tab2", "footer"}) =>
          "tab3" \in tabs

\* under the distance calculator menu, after a completed Excel calculation,
\* the run ended with NameError at `with tab3:`
C30_Witness ==
    /\ menu = "distance calculator"
    /\ outcome = "ok"
    /\ saved # None
    /\ tabs = {"tab1", "tab2"}
    /\ pc = "aborted"
    /\ raised = "NameError"

====
